---- MODULE Spec2Model ----
(***************************************************************************)
(* A model of the image-guardian watermark engine.                         *)
(*                                                                         *)
(* Two versions of the engine are in the repository: the v3 engine         *)
(* (src/unnamed/part_003) and the v2 engine (src/src/lib/watermark.ts).    *)
(* Definitions without a suffix model v3; definitions ending in V2 model   *)
(* the v2 file.                                                            *)
(*                                                                         *)
(* Numbers.  The code computes on IEEE doubles; the model computes in      *)
(* exact fixed point.  A real value v is the integer v * UNIT.  A luminance*)
(* 0.299R + 0.587G + 0.114B is a multiple of 1/1000 and one Haar level     *)
(* halves twice, so with UNIT = 4000 every value of the v3 pipeline is an  *)
(* integer and every division by two below is exact.  Doubles and exact    *)
(* values differ by rounding noise only, which can change an outcome only  *)
(* where a value sits exactly on a rounding tie.                           *)
(*                                                                         *)
(* Arrays are sequences, so index i of the code is index i + 1 here.       *)
(***************************************************************************)
EXTENDS Integers, Sequences, FiniteSets, TLC

VARIABLES
    \* QIMBitCodec exercise (qimEmbed / qimExtract on one coefficient)
    qPc, qCoef, qBit, qOut, qRead,
    \* PayloadCodec ECC exercise (rsEncode / channel / rsDecode)
    ePc, eBits, eEnc, eFlipped, eDec,
    \* HaarDWT2D exercise (dwt2D then idwt2D on one grid)
    dPc, dGrid, dBands, dBack,
    \* TileGridPartitioner exercise (computeTiles of either engine)
    tPc, tH, tW, tEngine, tTiles,
    \* Registry, local ledger cache and one verifyImage call
    registry, ledger, nextId,
    vPc, vImage, vExtracted, vCurrentHash, vLookups, vResult,
    \* One embedIntoTile call of the v2 engine and the read-back of its bands
    sPc, sTile, sBits, sStrength, sStep, sBands, sRead,
    \* One embedWatermark call of the v3 engine and extractWatermark on its output
    wPc, wImage, wData, wMarked, wReadings, wPhase, wCharLen, wResult,
    \* The watermark_registry table with its hash chain and one integrity sweep
    cTable, cNextId, cOrder, cSweep, cTampered,
    \* One embedTile call of the v3 engine and extractTileBits on its output
    rPc, rTile, rBits, rMarked, rOut,
    \* One iteration of the first loop of extractWatermark on tile readings
    gPc, gReadings, gLen, gTileBits, gVotes, gBits,
    \* saveLedgerEntry calls in flight, their completions, 'storage' events
    lPending, lCompleted, lEvents,
    \* One mounted verification component: its React state, the toast last
    \* shown, the runVerification calls and the image loads in flight
    uPanel, uSource, uStep, uResult, uToast, uRuns, uLoads, uCalls,
    \* One payload through stringToBinary, rsEncode, rsDecode, binaryToString
    pPc, pStr, pBits, pEnc, pDec, pOut,
    \* One band through detectSyncMarkers, embedSyncMarkers, detectSyncMarkers
    mPc, mBand, mScore, mMarked, mScoreMarked

qimVars == <<qPc, qCoef, qBit, qOut, qRead>>
eccVars == <<ePc, eBits, eEnc, eFlipped, eDec>>
dwtVars == <<dPc, dGrid, dBands, dBack>>
tileVars == <<tPc, tH, tW, tEngine, tTiles>>
storeVars == <<registry, ledger, nextId>>
callVars == <<vPc, vImage, vExtracted, vCurrentHash, vLookups, vResult>>
verVars == <<storeVars, callVars>>
v2Vars == <<sPc, sTile, sBits, sStrength, sStep, sBands, sRead>>
wmVars == <<wPc, wImage, wData, wMarked, wReadings, wPhase, wCharLen, wResult>>
chainVars == <<cTable, cNextId, cOrder, cSweep, cTampered>>
rtVars == <<rPc, rTile, rBits, rMarked, rOut>>
voteVars == <<gPc, gReadings, gLen, gTileBits, gVotes, gBits>>
saveVars == <<lPending, lCompleted, lEvents>>
uiVars == <<uPanel, uSource, uStep, uResult, uToast, uRuns, uLoads, uCalls>>
codecVars == <<pPc, pStr, pBits, pEnc, pDec, pOut>>
syncVars == <<mPc, mBand, mScore, mMarked, mScoreMarked>>
vars == <<qimVars, eccVars, dwtVars, tileVars, verVars, v2Vars, wmVars, chainVars, rtVars, voteVars, saveVars, uiVars, codecVars, syncVars>>

\* What the steps of one component leave alone.
notQim == <<eccVars, dwtVars, tileVars, verVars, v2Vars, wmVars, chainVars, rtVars, voteVars, saveVars, uiVars, codecVars, syncVars>>
notEcc == <<qimVars, dwtVars, tileVars, verVars, v2Vars, wmVars, chainVars, rtVars, voteVars, saveVars, uiVars, codecVars, syncVars>>
notDwt == <<qimVars, eccVars, tileVars, verVars, v2Vars, wmVars, chainVars, rtVars, voteVars, saveVars, uiVars, codecVars, syncVars>>
notTile == <<qimVars, eccVars, dwtVars, verVars, v2Vars, wmVars, chainVars, rtVars, voteVars, saveVars, uiVars, codecVars, syncVars>>
notVer == <<qimVars, eccVars, dwtVars, tileVars, v2Vars, wmVars, chainVars, rtVars, voteVars, saveVars, uiVars, codecVars, syncVars>>
notV2 == <<qimVars, eccVars, dwtVars, tileVars, verVars, wmVars, chainVars, rtVars, voteVars, saveVars, uiVars, codecVars, syncVars>>
notWm == <<qimVars, eccVars, dwtVars, tileVars, verVars, v2Vars, chainVars, rtVars, voteVars, saveVars, uiVars, codecVars, syncVars>>
notChain == <<qimVars, eccVars, dwtVars, tileVars, verVars, v2Vars, wmVars, rtVars, voteVars, saveVars, uiVars, codecVars, syncVars>>
notRt == <<qimVars, eccVars, dwtVars, tileVars, verVars, v2Vars, wmVars, chainVars, voteVars, saveVars, uiVars, codecVars, syncVars>>
notVote == <<qimVars, eccVars, dwtVars, tileVars, verVars, v2Vars, wmVars, chainVars, rtVars, saveVars, uiVars, codecVars, syncVars>>
notSave == <<qimVars, eccVars, dwtVars, tileVars, callVars, v2Vars, wmVars, chainVars, rtVars, voteVars, uiVars, codecVars, syncVars>>
notUi == <<qimVars, eccVars, dwtVars, tileVars, verVars, v2Vars, wmVars, chainVars, rtVars, voteVars, saveVars, codecVars, syncVars>>
notCodec == <<qimVars, eccVars, dwtVars, tileVars, verVars, v2Vars, wmVars, chainVars, rtVars, voteVars, saveVars, uiVars, syncVars>>
notSync == <<qimVars, eccVars, dwtVars, tileVars, verVars, v2Vars, wmVars, chainVars, rtVars, voteVars, saveVars, uiVars, codecVars>>

-----------------------------------------------------------------------------
(* Constants of the v3 engine *)

QIM_STEP == 12
TILE_SIZE == 128
RS_REDUNDANCY == 3
MAX_PAYLOAD_CHARS == 80
SYNC_MARKER == <<1,0,1,1,0,1,0,0,1,1,0,1,1,0,1,0>>

(* Fixed point: the integer n stands for the real n / UNIT. *)
UNIT == 4 * 1000

-----------------------------------------------------------------------------
(* Arithmetic helpers of the JavaScript runtime *)

Abs(n) == IF n < 0 THEN -n ELSE n

Min(a, b) == IF a < b THEN a ELSE b

Max(a, b) == IF a > b THEN a ELSE b

\* The code keeps every array it builds; Stored makes the model keep a
\* sequence as built values too (the value is unchanged).
Stored(q) == q \o <<>>

\* Math.round(n / d) for d > 0: the nearest integer, ties towards +infinity.
MathRound(n, d) == (2 * n + d) \div (2 * d)

\* Math.ceil(n / d) for d > 0.
MathCeil(n, d) == -((-n) \div d)

-----------------------------------------------------------------------------
(* QIMBitCodec, v3 *)

\* A plausible slip: the bit-1 lattice offset is dropped after rounding.
qimEmbed_NoOffset(coef, bit) ==
    LET step == QIM_STEP * UNIT
        half == step \div 2
    IN  IF bit = 0
        THEN MathRound(coef, step) * step
        ELSE MathRound(coef - half, step) * step

qimEmbed(coef, bit) ==
    LET step == QIM_STEP * UNIT
        half == step \div 2
    IN  IF bit = 0
        THEN MathRound(coef, step) * step
        ELSE MathRound(coef - half, step) * step + half

qimExtract(coef) ==
    LET step == QIM_STEP * UNIT
        half == step \div 2
        q0 == MathRound(coef, step) * step
        q1 == MathRound(coef - half, step) * step + half
    IN  IF Abs(coef - q1) < Abs(coef - q0) THEN 1 ELSE 0

\* Coefficients tried: every multiple of a quarter up to MaxCoefQuarters
\* quarters either side of zero (lattice points, half-way and quarter-way
\* values, both signs).
MaxCoefQuarters == 130
CoefSamples == { k * (UNIT \div 4) : k \in (-MaxCoefQuarters)..MaxCoefQuarters }

QimInit ==
    /\ qPc = "start"
    /\ qCoef \in CoefSamples
    /\ qBit \in {0, 1}
    /\ qOut = 0
    /\ qRead = 0

QimIdle ==
    /\ qPc = "idle" /\ qCoef = 0 /\ qBit = 0 /\ qOut = 0 /\ qRead = 0

QimEmbedStep ==
    /\ qPc = "start"
    /\ qOut' = qimEmbed(qCoef, qBit)
    /\ qPc' = "embedded"
    /\ UNCHANGED <<qCoef, qBit, qRead>>
    /\ UNCHANGED notQim

QimExtractStep ==
    /\ qPc = "embedded"
    /\ qRead' = qimExtract(qOut)
    /\ qPc' = "extracted"
    /\ UNCHANGED <<qCoef, qBit, qOut>>
    /\ UNCHANGED notQim

QimNext == QimEmbedStep \/ QimExtractStep

-----------------------------------------------------------------------------
(* PayloadCodec: repetition ECC, v3 *)

\* Every bit pushed RS_REDUNDANCY times in a row: output index k (from 1)
\* is a copy of input bit (k - 1) div RS_REDUNDANCY + 1.
rsEncode(bits) ==
    Stored([k \in 1..(RS_REDUNDANCY * Len(bits)) |->
        bits[((k - 1) \div RS_REDUNDANCY) + 1]])

RECURSIVE SumTo(_, _)
\* f[1] + ... + f[n]
SumTo(f, n) == IF n = 0 THEN 0 ELSE f[n] + SumTo(f, n - 1)

\* A plausible slip: a bit decodes to 1 only when every copy is 1.
rsDecode_Unanimous(encoded, originalBitLen) ==
    [i \in 1..originalBitLen |->
        LET copy(r) == LET idx == (i - 1) * RS_REDUNDANCY + r
                       IN  IF idx <= Len(encoded) THEN encoded[idx] ELSE 0
            sum == SumTo([r \in 1..RS_REDUNDANCY |-> copy(r)], RS_REDUNDANCY)
        IN  IF sum >= RS_REDUNDANCY THEN 1 ELSE 0]

rsDecode(encoded, originalBitLen) ==
    [i \in 1..originalBitLen |->
        LET copy(r) == LET idx == (i - 1) * RS_REDUNDANCY + r
                       IN  IF idx <= Len(encoded) THEN encoded[idx] ELSE 0
            sum == SumTo([r \in 1..RS_REDUNDANCY |-> copy(r)], RS_REDUNDANCY)
        IN  IF sum >= MathCeil(RS_REDUNDANCY, 2) THEN 1 ELSE 0]

MaxEccBits == 2
BitSeqs(n) == UNION { [1..k -> {0, 1}] : k \in 0..n }

EccInit ==
    /\ ePc = "start"
    /\ eBits \in BitSeqs(MaxEccBits)
    /\ eEnc = <<>>
    /\ eFlipped = {}
    /\ eDec = <<>>

EccIdle ==
    /\ ePc = "idle" /\ eBits = <<>> /\ eEnc = <<>> /\ eFlipped = {} /\ eDec = <<>>

RsEncodeStep ==
    /\ ePc = "start"
    /\ eEnc' = rsEncode(eBits)
    /\ ePc' = "encoded"
    /\ UNCHANGED <<eBits, eFlipped, eDec>>
    /\ UNCHANGED notEcc

\* The channel flips one copy that it has not flipped before.
ChannelFlip ==
    /\ ePc = "encoded"
    /\ \E idx \in (1..Len(eEnc)) \ eFlipped :
          /\ eEnc' = [eEnc EXCEPT ![idx] = 1 - @]
          /\ eFlipped' = eFlipped \cup {idx}
    /\ UNCHANGED <<ePc, eBits, eDec>>
    /\ UNCHANGED notEcc

RsDecodeStep ==
    /\ ePc = "encoded"
    /\ eDec' = rsDecode(eEnc, Len(eBits))
    /\ ePc' = "decoded"
    /\ UNCHANGED <<eBits, eEnc, eFlipped>>
    /\ UNCHANGED notEcc

EccNext == RsEncodeStep \/ ChannelFlip \/ RsDecodeStep

-----------------------------------------------------------------------------
(* HaarDWT2D, v3 *)

haarWavelet1D(data) ==
    LET half == Len(data) \div 2
    IN  [low  |-> Stored([i \in 1..half |-> (data[2 * i - 1] + data[2 * i]) \div 2]),
         high |-> Stored([i \in 1..half |-> (data[2 * i - 1] - data[2 * i]) \div 2])]

\* A plausible slip: the two reconstructed samples of a pair are pushed in
\* the wrong order.
inverseHaarWavelet1D_Swapped(low, high) ==
    Stored([k \in 1..(2 * Len(low)) |->
        IF k % 2 = 1
        THEN low[(k + 1) \div 2] - high[(k + 1) \div 2]
        ELSE low[k \div 2] + high[k \div 2]])

inverseHaarWavelet1D(low, high) ==
    Stored([k \in 1..(2 * Len(low)) |->
        IF k % 2 = 1
        THEN low[(k + 1) \div 2] + high[(k + 1) \div 2]
        ELSE low[k \div 2] - high[k \div 2]])

dwt2D(channel) ==
    LET height == Len(channel)
        rows == Stored([y \in 1..height |-> haarWavelet1D(channel[y])])
        halfWidth == Len(rows[1].low)
        halfHeight == height \div 2
        lowCols == Stored([x \in 1..halfWidth |->
                       haarWavelet1D(Stored([y \in 1..height |-> rows[y].low[x]]))])
        highCols == Stored([x \in 1..halfWidth |->
                       haarWavelet1D(Stored([y \in 1..height |-> rows[y].high[x]]))])
    IN  [LL |-> Stored([y \in 1..halfHeight |-> Stored([x \in 1..halfWidth |-> lowCols[x].low[y]])]),
         LH |-> Stored([y \in 1..halfHeight |-> Stored([x \in 1..halfWidth |-> lowCols[x].high[y]])]),
         HL |-> Stored([y \in 1..halfHeight |-> Stored([x \in 1..halfWidth |-> highCols[x].low[y]])]),
         HH |-> Stored([y \in 1..halfHeight |-> Stored([x \in 1..halfWidth |-> highCols[x].high[y]])])]

idwt2D(LL, LH, HL, HH) ==
    LET halfHeight == Len(LL)
        halfWidth == Len(LL[1])
        height == halfHeight * 2
        col(B, x) == Stored([y \in 1..halfHeight |-> B[y][x]])
        lowCols == Stored([x \in 1..halfWidth |-> inverseHaarWavelet1D(col(LL, x), col(LH, x))])
        highCols == Stored([x \in 1..halfWidth |-> inverseHaarWavelet1D(col(HL, x), col(HH, x))])
    IN  Stored([y \in 1..height |->
            inverseHaarWavelet1D(Stored([x \in 1..halfWidth |-> lowCols[x][y]]),
                                 Stored([x \in 1..halfWidth |-> highCols[x][y]]))])

\* Grids tried: every even height and width up to 2 * MaxHalfDim, filled by a
\* quadratic pattern of three seeds with values of both signs.  One luminance
\* grain is 1/1000.
MaxHalfDim == 2
MaxSeed == 3
LumaGrain == UNIT \div 1000
GridSample(h, w, a, b, c) ==
    [y \in 1..h |-> [x \in 1..w |->
        LumaGrain * (((a * y * y + b * x + c * x * y + a * b) % 11) - 5)]]

DwtInit ==
    /\ dPc = "start"
    /\ \E hh \in 1..MaxHalfDim, hw \in 1..MaxHalfDim :
       \E a \in 0..MaxSeed, b \in 0..MaxSeed, c \in 0..MaxSeed :
          dGrid = GridSample(2 * hh, 2 * hw, a, b, c)
    /\ dBands = <<>>
    /\ dBack = <<>>

DwtIdle ==
    /\ dPc = "idle" /\ dGrid = <<>> /\ dBands = <<>> /\ dBack = <<>>

Dwt2DStep ==
    /\ dPc = "start"
    /\ dBands' = dwt2D(dGrid)
    /\ dPc' = "transformed"
    /\ UNCHANGED <<dGrid, dBack>>
    /\ UNCHANGED notDwt

Idwt2DStep ==
    /\ dPc = "transformed"
    /\ dBack' = idwt2D(dBands.LL, dBands.LH, dBands.HL, dBands.HH)
    /\ dPc' = "restored"
    /\ UNCHANGED <<dGrid, dBands>>
    /\ UNCHANGED notDwt

DwtNext == Dwt2DStep \/ Idwt2DStep

-----------------------------------------------------------------------------
(* TileGridPartitioner *)

RECURSIVE computeTilesLoop(_, _, _, _)
computeTilesLoop(imgH, imgW, y, x) ==
    IF ~(y < imgH) THEN <<>>
    ELSE IF ~(x < imgW) THEN computeTilesLoop(imgH, imgW, y + TILE_SIZE, 0)
    ELSE LET tileH == Min(TILE_SIZE, imgH - y)
             tileW == Min(TILE_SIZE, imgW - x)
             kept == IF tileH >= 32 /\ tileW >= 32
                     THEN << [startY |-> y, startX |-> x,
                              height |-> tileH, width |-> tileW] >>
                     ELSE <<>>
         IN  kept \o computeTilesLoop(imgH, imgW, y, x + TILE_SIZE)

computeTiles(imgH, imgW) == computeTilesLoop(imgH, imgW, 0, 0)

(* Constants of the v2 engine.  TILE_OVERLAP is 0.5, kept as a fraction. *)
TILE_SIZE_V2 == 256
TILE_OVERLAP_NUM_V2 == 1
TILE_OVERLAP_DEN_V2 == 2

\* Math.floor(TILE_SIZE * (1 - TILE_OVERLAP))
TileStepV2 ==
    (TILE_SIZE_V2 * (TILE_OVERLAP_DEN_V2 - TILE_OVERLAP_NUM_V2)) \div TILE_OVERLAP_DEN_V2

RECURSIVE computeTilesLoopV2(_, _, _, _)
computeTilesLoopV2(height, width, y, x) ==
    IF ~(y < height) THEN <<>>
    ELSE IF ~(x < width) THEN computeTilesLoopV2(height, width, y + TileStepV2, 0)
    ELSE LET tileH == Min(TILE_SIZE_V2, height - y)
             tileW == Min(TILE_SIZE_V2, width - x)
             kept == IF tileH >= 32 /\ tileW >= 32
                     THEN << [startY |-> y, startX |-> x,
                              height |-> tileH, width |-> tileW] >>
                     ELSE <<>>
         IN  kept \o computeTilesLoopV2(height, width, y, x + TileStepV2)

computeTilesV2(height, width) == computeTilesLoopV2(height, width, 0, 0)

\* Image sizes tried: up to MaxTileSpans nominal v3 tiles plus a remainder
\* around the keep/drop threshold of an edge tile.
MaxTileSpans == 2
DimSamples ==
    { TILE_SIZE * k + d : k \in 0..MaxTileSpans, d \in {0, 1, 31, 32, 33, 127} }

TileInit ==
    /\ tPc = "start"
    /\ tH \in DimSamples
    /\ tW \in DimSamples
    /\ tEngine = "none"
    /\ tTiles = <<>>

TileIdle ==
    /\ tPc = "idle" /\ tH = 0 /\ tW = 0 /\ tEngine = "none" /\ tTiles = <<>>

ComputeTilesStep ==
    /\ tPc = "start"
    /\ tTiles' = computeTiles(tH, tW)
    /\ tEngine' = "v3"
    /\ tPc' = "done"
    /\ UNCHANGED <<tH, tW>>
    /\ UNCHANGED notTile

ComputeTilesV2Step ==
    /\ tPc = "start"
    /\ tTiles' = computeTilesV2(tH, tW)
    /\ tEngine' = "v2"
    /\ tPc' = "done"
    /\ UNCHANGED <<tH, tW>>
    /\ UNCHANGED notTile

TileNext == ComputeTilesStep \/ ComputeTilesV2Step

-----------------------------------------------------------------------------
(* Registry, local ledger and verifyImage, v3 *)

(* A registry row and a ledger entry keep the fields verifyImage reads        *)
(* (creator, timestamp, image hash) and the id; prompt and created_at are only *)
(* copied into the verdict.  An optional value (T | null) is a sequence of     *)
(* length at most one.                                                         *)

\* SHA-256 of the data URL text, as an injective tag (no collisions).
generateHash(data) == <<"sha256", data>>

toRegistryRow(entry) ==
    [id |-> entry.id, creator_id |-> entry.creatorId,
     timestamp |-> entry.timestamp, image_hash |-> entry.imageHash]

\* Array.prototype.find: the first element that satisfies the test, if any.
RECURSIVE FindFirst(_, _, _)
FindFirst(list, creatorId, timestamp) ==
    IF list = <<>> THEN <<>>
    ELSE IF Head(list).creatorId = creatorId /\ Head(list).timestamp = timestamp
         THEN <<Head(list)>>
         ELSE FindFirst(Tail(list), creatorId, timestamp)

\* The answers a select ... limit(1) can give: an error with no data, or the
\* rows that match cut to at most one (which one is not specified, there is
\* no ORDER BY).
QueryAnswers(matching) ==
    {[error |-> TRUE, data |-> <<>>]}
    \cup (IF matching = {} THEN {[error |-> FALSE, data |-> <<>>]}
          ELSE {[error |-> FALSE, data |-> <<row>>] : row \in matching})

Rows == { registry[i] : i \in 1..Len(registry) }

Verdict(status, extractedData, currentHash, registryEntry, confidence) ==
    [status |-> status, extractedData |-> extractedData,
     currentHash |-> currentHash, registryEntry |-> registryEntry,
     confidence |-> confidence]

Outcome(answer) ==
    IF answer.error THEN "error" ELSE IF answer.data = <<>> THEN "miss" ELSE "hit"

\* A plausible slip: a registry error on the metadata query aborts the call.
metadataTier_ErrorAborts(extractedData, currentHash, answer, localLedger) ==
    IF answer.error
    THEN [lookups |-> << [tier |-> "registry_metadata", outcome |-> "error"] >>,
          result |-> << Verdict("rejected", extractedData, currentHash, <<>>, "none") >>]
    ELSE IF answer.data # <<>>
    THEN [lookups |-> << [tier |-> "registry_metadata", outcome |-> "hit"] >>,
          result |-> << Verdict("registered", extractedData, currentHash, answer.data,
                        IF currentHash = answer.data[1].image_hash
                        THEN "exact_hash" ELSE "dwt_metadata") >>]
    ELSE LET localEntry == FindFirst(localLedger, extractedData[1].creatorId,
                                     extractedData[1].timestamp)
         IN  IF localEntry # <<>>
             THEN [lookups |-> << [tier |-> "registry_metadata", outcome |-> "miss"],
                                  [tier |-> "local_ledger", outcome |-> "hit"] >>,
                   result |-> << Verdict("registered", extractedData, currentHash,
                                 << toRegistryRow(localEntry[1]) >>,
                                 IF currentHash = localEntry[1].imageHash
                                 THEN "exact_hash" ELSE "dwt_metadata") >>]
             ELSE [lookups |-> << [tier |-> "registry_metadata", outcome |-> "miss"],
                                  [tier |-> "local_ledger", outcome |-> "miss"] >>,
                   result |-> <<>>]

\* A plausible slip: the local ledger is read before the registry answer is
\* looked at.
metadataTier_LocalFirst(extractedData, currentHash, answer, localLedger) ==
    LET localEntry == FindFirst(localLedger, extractedData[1].creatorId,
                                extractedData[1].timestamp)
    IN  IF localEntry # <<>>
        THEN [lookups |-> << [tier |-> "local_ledger", outcome |-> "hit"] >>,
              result |-> << Verdict("registered", extractedData, currentHash,
                            << toRegistryRow(localEntry[1]) >>,
                            IF currentHash = localEntry[1].imageHash
                            THEN "exact_hash" ELSE "dwt_metadata") >>]
        ELSE IF ~answer.error /\ answer.data # <<>>
        THEN [lookups |-> << [tier |-> "local_ledger", outcome |-> "miss"],
                             [tier |-> "registry_metadata", outcome |-> "hit"] >>,
              result |-> << Verdict("registered", extractedData, currentHash, answer.data,
                            IF currentHash = answer.data[1].image_hash
                            THEN "exact_hash" ELSE "dwt_metadata") >>]
        ELSE [lookups |-> << [tier |-> "local_ledger", outcome |-> "miss"],
                             [tier |-> "registry_metadata", outcome |-> Outcome(answer)] >>,
              result |-> <<>>]

\* verifyImage from the answer of the metadata query up to the hash query:
\* the lookups made and the verdict returned, if one is.
metadataTier(extractedData, currentHash, answer, localLedger) ==
    IF ~answer.error /\ answer.data # <<>>
    THEN [lookups |-> << [tier |-> "registry_metadata", outcome |-> "hit"] >>,
          result |-> << Verdict("registered", extractedData, currentHash, answer.data,
                        IF currentHash = answer.data[1].image_hash
                        THEN "exact_hash" ELSE "dwt_metadata") >>]
    ELSE LET localEntry == FindFirst(localLedger, extractedData[1].creatorId,
                                     extractedData[1].timestamp)
         IN  IF localEntry # <<>>
             THEN [lookups |-> << [tier |-> "registry_metadata", outcome |-> Outcome(answer)],
                                  [tier |-> "local_ledger", outcome |-> "hit"] >>,
                   result |-> << Verdict("registered", extractedData, currentHash,
                                 << toRegistryRow(localEntry[1]) >>,
                                 IF currentHash = localEntry[1].imageHash
                                 THEN "exact_hash" ELSE "dwt_metadata") >>]
             ELSE [lookups |-> << [tier |-> "registry_metadata", outcome |-> Outcome(answer)],
                                  [tier |-> "local_ledger", outcome |-> "miss"] >>,
                   result |-> <<>>]

\* verifyImage from the answer of the hash query to its return.
hashTier(extractedData, currentHash, answer) ==
    IF ~answer.error /\ answer.data # <<>>
    THEN [lookups |-> << [tier |-> "registry_hash", outcome |-> "hit"] >>,
          result |-> << Verdict("registered", extractedData, currentHash,
                                answer.data, "exact_hash") >>]
    ELSE [lookups |-> << [tier |-> "registry_hash", outcome |-> Outcome(answer)] >>,
          result |-> << Verdict("unregistered", extractedData, currentHash,
                                <<>>, "none") >>]

\* What is tried: NumCreators creator ids, NumTimestamps timestamps,
\* NumImages data URLs, and at most MaxSaves records written before the call.
NumCreators == 2
NumTimestamps == 2
NumImages == 2
MaxSaves == 2
Creators == 1..NumCreators
Timestamps == 1..NumTimestamps
Images == 1..NumImages
Payloads == [creatorId : Creators, timestamp : Timestamps]

VerInit ==
    /\ registry = <<>>
    /\ ledger = <<>>
    /\ nextId = 1
    /\ vPc = "idle"
    /\ vImage = 0
    /\ vExtracted = <<>>
    /\ vCurrentHash = <<>>
    /\ vLookups = <<>>
    /\ vResult = <<>>

VerIdle ==
    /\ registry = <<>> /\ ledger = <<>> /\ nextId = 0
    /\ vPc = "off" /\ vImage = 0 /\ vExtracted = <<>> /\ vCurrentHash = <<>>
    /\ vLookups = <<>> /\ vResult = <<>>

\* saveLedgerEntry of the entry embedWatermark built for a watermarked image:
\* the local ledger gets it first (unshift), the registry insert may fail.
SaveLedgerEntry ==
    /\ vPc = "idle"
    /\ nextId <= MaxSaves
    /\ \E c \in Creators, t \in Timestamps, img \in Images, insertFails \in BOOLEAN :
          LET entry == [id |-> nextId, creatorId |-> c, timestamp |-> t,
                        imageHash |-> generateHash(img)]
          IN  /\ ledger' = <<entry>> \o ledger
              /\ registry' = IF insertFails THEN registry
                             ELSE Append(registry, toRegistryRow(entry))
    /\ nextId' = nextId + 1
    /\ UNCHANGED callVars
    /\ UNCHANGED notVer

\* The same save made in another browser: the row reaches the shared registry,
\* this browser's ledger does not have it.
SaveElsewhere ==
    /\ vPc = "idle"
    /\ nextId <= MaxSaves
    /\ \E c \in Creators, t \in Timestamps, img \in Images :
          registry' = Append(registry,
                         [id |-> nextId, creator_id |-> c, timestamp |-> t,
                          image_hash |-> generateHash(img)])
    /\ nextId' = nextId + 1
    /\ UNCHANGED <<ledger, callVars>>
    /\ UNCHANGED notVer

\* verifyImage is called; it runs up to the await of generateHash.
VerifyCall ==
    /\ vPc = "idle"
    /\ \E img \in Images, ext \in {<<>>} \cup { <<p>> : p \in Payloads } :
          /\ vImage' = img
          /\ vExtracted' = ext
    /\ vPc' = "hashing"
    /\ UNCHANGED <<storeVars, vCurrentHash, vLookups, vResult>>
    /\ UNCHANGED notVer

\* The hash arrives; the metadata query, or without a payload the hash query,
\* is sent.
VerifyHashed ==
    /\ vPc = "hashing"
    /\ vCurrentHash' = generateHash(vImage)
    /\ vPc' = IF vExtracted # <<>> THEN "metadata_query" ELSE "hash_query"
    /\ UNCHANGED <<storeVars, vImage, vExtracted, vLookups, vResult>>
    /\ UNCHANGED notVer

\* The metadata query answers; the local ledger is read if needed, and either
\* a verdict is returned or the hash query is sent.
VerifyMetadataAnswer ==
    /\ vPc = "metadata_query"
    /\ \E answer \in QueryAnswers({ row \in Rows :
                        /\ row.creator_id = vExtracted[1].creatorId
                        /\ row.timestamp = vExtracted[1].timestamp }) :
          LET out == metadataTier(vExtracted, vCurrentHash, answer, ledger)
          IN  /\ vLookups' = vLookups \o out.lookups
              /\ vResult' = out.result
              /\ vPc' = IF out.result # <<>> THEN "done" ELSE "hash_query"
    /\ UNCHANGED <<storeVars, vImage, vExtracted, vCurrentHash>>
    /\ UNCHANGED notVer

\* The hash query answers; the verdict is returned.
VerifyHashAnswer ==
    /\ vPc = "hash_query"
    /\ \E answer \in QueryAnswers({ row \in Rows : row.image_hash = vCurrentHash }) :
          LET out == hashTier(vExtracted, vCurrentHash, answer)
          IN  /\ vLookups' = vLookups \o out.lookups
              /\ vResult' = out.result
    /\ vPc' = "done"
    /\ UNCHANGED <<storeVars, vImage, vExtracted, vCurrentHash>>
    /\ UNCHANGED notVer

\* clearLedger of the audit-ledger panel: the button is enabled while the
\* ledger shows records; after the confirm dialog the local ledger is removed.
\* The registry is not touched.
ClearLedger ==
    /\ vPc # "off"
    /\ ledger # <<>>
    /\ \E confirmed \in BOOLEAN :
          ledger' = IF confirmed THEN <<>> ELSE ledger
    /\ UNCHANGED <<registry, nextId, callVars>>
    /\ UNCHANGED notVer

VerNext ==
    \/ SaveLedgerEntry \/ SaveElsewhere
    \/ VerifyCall \/ VerifyHashed \/ VerifyMetadataAnswer \/ VerifyHashAnswer
    \/ ClearLedger

-----------------------------------------------------------------------------
(* Adaptive strength and QIM of the v2 engine                               *)
(*                                                                          *)
(* The v2 transform divides by sqrt(2) in each pass, so after the two       *)
(* passes of dwt2D a coefficient is a sum of four samples over 2.  Values   *)
(* of this section are in units of 1/UNIT_V2 with UNIT_V2 = 2; strengths,   *)
(* steps and embedded coefficients are exact fractions [num, den].          *)

QIM_STEP_V2 == 50
ADAPTIVE_MIN_STRENGTH_TENTHS_V2 == 6
ADAPTIVE_MAX_STRENGTH_TENTHS_V2 == 14
VARIANCE_CEILING_V2 == 2000
UNIT_V2 == 1 + 1

RECURSIVE Gcd(_, _)
Gcd(a, b) == IF b = 0 THEN a ELSE Gcd(b, a % b)

\* The fraction n / d (d > 0) in lowest terms.
Frac(n, d) == LET g == Gcd(Abs(n), d) IN [num |-> n \div g, den |-> d \div g]

\* One pass of haarWavelet1D; the results are in units of 1/sqrt(2).
haarWavelet1DV2(data) ==
    LET half == Len(data) \div 2
    IN  [low  |-> [i \in 1..half |-> data[2 * i - 1] + data[2 * i]],
         high |-> [i \in 1..half |-> data[2 * i - 1] - data[2 * i]]]

\* dwt2D: rows, then the columns of the row-low and of the row-high halves.
\* The second pass brings the unit 1/sqrt(2) to 1/2.
dwt2DV2(channel) ==
    LET height == Len(channel)
        rows == [y \in 1..height |-> haarWavelet1DV2(channel[y])]
        halfWidth == Len(rows[1].low)
        lowCols == [x \in 1..halfWidth |->
                       haarWavelet1DV2([y \in 1..height |-> rows[y].low[x]])]
        highCols == [x \in 1..halfWidth |->
                       haarWavelet1DV2([y \in 1..height |-> rows[y].high[x]])]
        halfHeight == Len(lowCols[1].low)
    IN  [LL |-> [y \in 1..halfHeight |-> [x \in 1..halfWidth |-> lowCols[x].low[y] \div 2]],
         LH |-> [y \in 1..halfHeight |-> [x \in 1..halfWidth |-> lowCols[x].high[y] \div 2]],
         HL |-> [y \in 1..halfHeight |-> [x \in 1..halfWidth |-> highCols[x].low[y] \div 2]],
         HH |-> [y \in 1..halfHeight |-> [x \in 1..halfWidth |-> highCols[x].high[y] \div 2]]]

RECURSIVE SumSeq(_)
SumSeq(q) == IF q = <<>> THEN 0 ELSE Head(q) + SumSeq(Tail(q))

RECURSIVE Flatten(_)
Flatten(grid) == IF grid = <<>> THEN <<>> ELSE Head(grid) \o Flatten(Tail(grid))

\* computeTextureStrength over the region (startY, startX, h, w) of channel:
\* 0.6 + min(1, variance / 2000) * (1.4 - 0.6), as an exact fraction.
computeTextureStrengthV2(channel, startY, startX, h, w) ==
    LET ys == { y \in 1..Len(channel) : startY < y /\ y <= startY + h }
        cells == Flatten([y \in 1..Len(channel) |->
                    IF y \in ys
                    THEN SubSeq(channel[y], startX + 1, Min(startX + w, Len(channel[y])))
                    ELSE <<>>])
        count == Len(cells)
        sum == SumSeq(cells)
        sumSq == SumSeq([i \in 1..count |-> cells[i] * cells[i]])
        \* variance = varNum / varDen
        varNum == count * sumSq - sum * sum
        varDen == count * count * UNIT_V2 * UNIT_V2
        normalized == IF varNum >= VARIANCE_CEILING_V2 * varDen
                      THEN Frac(1, 1)
                      ELSE Frac(varNum, VARIANCE_CEILING_V2 * varDen)
        span == ADAPTIVE_MAX_STRENGTH_TENTHS_V2 - ADAPTIVE_MIN_STRENGTH_TENTHS_V2
    IN  IF count = 0 THEN Frac(1, 1)
        ELSE Frac(ADAPTIVE_MIN_STRENGTH_TENTHS_V2 * normalized.den + span * normalized.num,
                  10 * normalized.den)

\* The step of qimEmbed: QIM_STEP * strength.
qimEmbedStepV2(strength) == Frac(QIM_STEP_V2 * UNIT_V2 * strength.num, strength.den)

\* The step of qimExtract: QIM_STEP.
qimExtractStepV2 == Frac(QIM_STEP_V2 * UNIT_V2, 1)

\* qimEmbed(coef, bit, strength): Math.round((coef - offset) / step) * step + offset
\* with offset = step / 2 for bit 1.  With step = s / d the quotient is
\* (2 * coef * d - bit * s) / (2 * s) and the result (2 * k * s + bit * s) / (2 * d).
qimEmbedV2(coef, bit, strength) ==
    LET step == qimEmbedStepV2(strength)
        k == MathRound(2 * coef * step.den - bit * step.num, 2 * step.num)
    IN  Frac(2 * k * step.num + bit * step.num, 2 * step.den)

\* qimExtract(coef) for a coefficient given as a fraction.
qimExtractV2(coef) ==
    LET step == qimExtractStepV2.num
        halfStep == step \div 2
        q0 == MathRound(coef.num, coef.den * step) * step
        q1 == MathRound(coef.num - halfStep * coef.den, coef.den * step) * step + halfStep
        dist0 == Abs(coef.num - q0 * coef.den)
        dist1 == Abs(coef.num - q1 * coef.den)
    IN  IF dist0 <= dist1 THEN 0 ELSE 1

\* embedIntoTile up to the two embedding loops: the strength of the tile, the
\* step its qimEmbed calls use, and the LH and HL bands after the loops (in
\* raster order, bit index restarting at 0 for HL).
embedIntoTileV2(tileChannel, encodedBits, fullChannel, tileInfo) ==
    LET h == Len(tileChannel) - (Len(tileChannel) % 2)
        w == Len(tileChannel[1]) - (Len(tileChannel[1]) % 2)
        evenTile == [y \in 1..h |-> SubSeq(tileChannel[y], 1, w)]
        bands == dwt2DV2(evenTile)
        strength == computeTextureStrengthV2(fullChannel, tileInfo.startY, tileInfo.startX,
                                             tileInfo.height, tileInfo.width)
        bwidth == w \div 2
        bitAt(y, x) == encodedBits[(((y - 1) * bwidth + (x - 1)) % Len(encodedBits)) + 1]
    IN  [strength |-> strength,
         step |-> qimEmbedStepV2(strength),
         LH |-> [y \in 1..(h \div 2) |-> [x \in 1..bwidth |->
                    qimEmbedV2(bands.LH[y][x], bitAt(y, x), strength)]],
         HL |-> [y \in 1..(h \div 2) |-> [x \in 1..bwidth |->
                    qimEmbedV2(bands.HL[y][x], bitAt(y, x), strength)]]]

\* Tiles tried: 4 x 4 tiles of grey pixels (luminance = the grey level) in
\* horizontal stripes of base + delta and base - delta, so the variance is
\* delta squared.
MaxDeltaSteps == 12
MaxBaseSteps == 5
StripedTile(base, delta) ==
    [y \in 1..4 |-> [x \in 1..4 |->
        UNIT_V2 * (IF y % 2 = 1 THEN base + delta ELSE base - delta)]]

V2Init ==
    /\ sPc = "start"
    /\ \E b \in 0..MaxBaseSteps, d \in 0..MaxDeltaSteps :
          sTile = StripedTile(100 + 9 * b, 4 * d)
    /\ sBits \in [1..2 -> {0, 1}]
    /\ sStrength = Frac(1, 1)
    /\ sStep = Frac(0, 1)
    /\ sBands = <<>>
    /\ sRead = <<>>

V2Idle ==
    /\ sPc = "idle" /\ sTile = <<>> /\ sBits = <<>> /\ sStrength = <<>>
    /\ sStep = <<>> /\ sBands = <<>> /\ sRead = <<>>

EmbedIntoTileV2Step ==
    /\ sPc = "start"
    /\ LET out == embedIntoTileV2(sTile, sBits, sTile,
                     [startY |-> 0, startX |-> 0,
                      height |-> Len(sTile), width |-> Len(sTile[1])])
       IN  /\ sStrength' = out.strength
           /\ sStep' = out.step
           /\ sBands' = [LH |-> out.LH, HL |-> out.HL]
    /\ sPc' = "embedded"
    /\ UNCHANGED <<sTile, sBits, sRead>>
    /\ UNCHANGED notV2

\* qimExtract read over the LH band as embedIntoTile left it.
QimExtractV2Step ==
    /\ sPc = "embedded"
    /\ sRead' = [y \in 1..Len(sBands.LH) |-> [x \in 1..Len(sBands.LH[y]) |->
                    qimExtractV2(sBands.LH[y][x])]]
    /\ sPc' = "read"
    /\ UNCHANGED <<sTile, sBits, sStrength, sStep, sBands>>
    /\ UNCHANGED notV2

V2Next == EmbedIntoTileV2Step \/ QimExtractV2Step

-----------------------------------------------------------------------------
(* PayloadCodec, v3: strings as sequences of character codes *)

\* Bit b (0 = lowest) of a character code: (charCode >> b) & 1.
BitOf(charCode, b) == (charCode \div (2 ^ b)) % 2

\* A plausible slip: the bits of a character pushed lowest first.
stringToBinary_LsbFirst(str) ==
    Stored([k \in 1..(8 * Len(str)) |->
        BitOf(str[(k - 1) \div 8 + 1], (k - 1) % 8)])

stringToBinary(str) ==
    Stored([k \in 1..(8 * Len(str)) |->
        BitOf(str[(k - 1) \div 8 + 1], 7 - ((k - 1) % 8))])

RECURSIVE charCodeOf(_, _, _)
\* The inner loop of binaryToString: the bits of the group starting at index
\* i, as far as the array reaches, read most significant first.
charCodeOf(binary, i, bit) ==
    IF bit < 8 /\ i + bit <= Len(binary)
    THEN charCodeOf(binary, i, bit + 1)
    ELSE IF bit = 0 THEN 0
    ELSE LET n == bit
         IN  SumTo([j \in 1..n |-> binary[i + j - 1] * (2 ^ (n - j))], n)

binaryToString(binary) ==
    LET groups == MathCeil(Len(binary), 8)
        code == Stored([g \in 1..groups |-> charCodeOf(binary, 8 * (g - 1) + 1, 0)])
        \* one character, a space, or nothing (code 0)
        piece(c) == IF c > 31 /\ c < 128 THEN <<c>>
                    ELSE IF c # 0 THEN <<32>>
                    ELSE <<>>
        kept == SelectSeq(code, LAMBDA c : c # 0)
    IN  Stored([k \in 1..Len(kept) |-> piece(kept[k])[1]])

-----------------------------------------------------------------------------
(* Luminance and pixels, v3.  An image is its even width and height and its
   rows of pixels: <<R, G, B>> for an opaque pixel, <<R, G, B, A>> where
   the alpha of the pixel buffer is followed. *)

rgbToY(r, g, b) == (UNIT \div 1000) * (299 * r + 587 * g + 114 * b)

yChannelOf(pixels, height, width) ==
    Stored([y \in 1..height |-> Stored([x \in 1..width |->
        rgbToY(pixels[y][x][1], pixels[y][x][2], pixels[y][x][3])])])

\* Storing a number into a Uint8ClampedArray: clamp to 0..255 and round to
\* the nearest integer, a tie to the even one.
ToUint8Clamp(n) ==
    LET c == Max(0, Min(255 * UNIT, n))
        f == c \div UNIT
        r == c % UNIT
    IN  IF 2 * r > UNIT THEN f + 1
        ELSE IF 2 * r < UNIT THEN f
        ELSE IF f % 2 = 0 THEN f ELSE f + 1

-----------------------------------------------------------------------------
(* SyncMarkerCodec, v3 *)

\* The index into SYNC_MARKER (from 1) that the corner loops give the band
\* cell (y, x), or 0 when the cell is in no corner block.
SyncBitIdx(h, w, y, x) ==
    LET cy == IF y <= 4 THEN 1 ELSE IF y > h - 4 THEN h - 3 ELSE 0
        cx == IF x <= 4 THEN 1 ELSE IF x > w - 4 THEN w - 3 ELSE 0
    IN  IF cy = 0 \/ cx = 0 THEN 0 ELSE (y - cy) * 4 + (x - cx) + 1

\* A plausible slip: bitIdx is not reset between corners, so that only the
\* first corner takes the pattern.
embedSyncMarkers_FirstCornerOnly(band) ==
    LET h == Len(band)
        w == IF h = 0 THEN 0 ELSE Len(band[1])
    IN  IF h < 8 \/ w < 8 THEN band
        ELSE Stored([y \in 1..h |-> Stored([x \in 1..w |->
                LET bitIdx == SyncBitIdx(h, w, y, x)
                IN  IF bitIdx = 0 \/ y > 4 \/ x > 4 THEN band[y][x]
                    ELSE qimEmbed(band[y][x], SYNC_MARKER[bitIdx])])])

embedSyncMarkers(band) ==
    LET h == Len(band)
        w == IF h = 0 THEN 0 ELSE Len(band[1])
    IN  IF h < 8 \/ w < 8 THEN band
        ELSE Stored([y \in 1..h |-> Stored([x \in 1..w |->
                LET bitIdx == SyncBitIdx(h, w, y, x)
                IN  IF bitIdx = 0 THEN band[y][x]
                    ELSE qimEmbed(band[y][x], SYNC_MARKER[bitIdx])])])

\* The score of the code is matches / 64; the model returns the number of
\* matches out of the 64 marker cells.
detectSyncMarkers(band) ==
    LET h == Len(band)
        w == IF h = 0 THEN 0 ELSE Len(band[1])
        cells == {<<y, x>> \in ((1..4) \cup ((h - 3)..h)) \X ((1..4) \cup ((w - 3)..w)) :
                    qimExtract(band[y][x]) = SYNC_MARKER[SyncBitIdx(h, w, y, x)]}
    IN  IF h < 8 \/ w < 8 THEN 0 ELSE Cardinality(cells)

SYNC_CELLS == 4 * Len(SYNC_MARKER)

-----------------------------------------------------------------------------
(* TileWatermarker, v3 *)

readTile(channel, tile) ==
    Stored([y \in 1..tile.height |-> Stored([x \in 1..tile.width |->
        IF tile.startY + y <= Len(channel) /\ tile.startX + x <= Len(channel[1])
        THEN channel[tile.startY + y][tile.startX + x]
        ELSE 0])])

writeTile(channel, tile, data) ==
    Stored([y \in 1..Len(channel) |-> Stored([x \in 1..Len(channel[1]) |->
        IF /\ y > tile.startY /\ y <= tile.startY + tile.height
           /\ x > tile.startX /\ x <= tile.startX + tile.width
        THEN data[y - tile.startY][x - tile.startX]
        ELSE channel[y][x]])])

\* tile.slice(0, h).map(row => row.slice(0, w))
EvenPart(tile, h, w) ==
    Stored([y \in 1..h |-> Stored([x \in 1..w |-> tile[y][x]])])

\* One band after the embedding loop: cell idx (row-major, from 0) takes
\* encodedBits[idx % encodedBits.length].
embedBand(band, encodedBits) ==
    LET bw == Len(band[1])
    IN  Stored([y \in 1..Len(band) |-> Stored([x \in 1..bw |->
            qimEmbed(band[y][x],
                     encodedBits[(((y - 1) * bw + (x - 1)) % Len(encodedBits)) + 1])])])

\* A plausible slip: the index is not reset between the two bands, so HL goes
\* on where LH stopped.
embedTile_HLContinues(tile, encodedBits) ==
    LET h == Len(tile) - (Len(tile) % 2)
        w == Len(tile[1]) - (Len(tile[1]) % 2)
        bands == dwt2D(EvenPart(tile, h, w))
        bw == w \div 2
        LH == embedBand(bands.LH, encodedBits)
        HL == Stored([y \in 1..(h \div 2) |-> Stored([x \in 1..bw |->
                 qimEmbed(bands.HL[y][x],
                     encodedBits[(((h \div 2) * bw + (y - 1) * bw + (x - 1))
                                   % Len(encodedBits)) + 1])])])
        HH == embedSyncMarkers(bands.HH)
        reconstructed == idwt2D(bands.LL, LH, HL, HH)
    IN  IF h < 4 \/ w < 4 THEN tile
        ELSE Stored([y \in 1..Len(tile) |-> Stored([x \in 1..Len(tile[1]) |->
                IF y <= h /\ x <= w THEN reconstructed[y][x] ELSE tile[y][x]])])

embedTile(tile, encodedBits) ==
    LET h == Len(tile) - (Len(tile) % 2)
        w == Len(tile[1]) - (Len(tile[1]) % 2)
        bands == dwt2D(EvenPart(tile, h, w))
        LH == embedBand(bands.LH, encodedBits)
        HL == embedBand(bands.HL, encodedBits)
        HH == embedSyncMarkers(bands.HH)
        reconstructed == idwt2D(bands.LL, LH, HL, HH)
    IN  IF h < 4 \/ w < 4 THEN tile
        ELSE Stored([y \in 1..Len(tile) |-> Stored([x \in 1..Len(tile[1]) |->
                IF y <= h /\ x <= w THEN reconstructed[y][x] ELSE tile[y][x]])])

\* What extractTileBits reads from a tile before it tallies: the bit of every
\* LH and HL cell in row-major order and the sync matches of HH.  None of it
\* depends on payloadLen.
tileReadings(tile) ==
    LET h == Len(tile) - (Len(tile) % 2)
        w == Len(tile[1]) - (Len(tile[1]) % 2)
        bands == dwt2D(EvenPart(tile, h, w))
        bw == w \div 2
        cells(band) == Stored([k \in 1..((h \div 2) * bw) |->
                          qimExtract(band[((k - 1) \div bw) + 1][((k - 1) % bw) + 1])])
    IN  IF h < 4 \/ w < 4 THEN [tooSmall |-> TRUE, LH |-> <<>>, HL |-> <<>>, sync |-> 0]
        ELSE [tooSmall |-> FALSE, LH |-> cells(bands.LH), HL |-> cells(bands.HL),
              sync |-> detectSyncMarkers(bands.HH)]

\* votes[i] of extractTileBits for bit position i (from 1): cell idx votes
\* for position idx % payloadLen.
tileVotes(readings, payloadLen, i) ==
    LET n == Len(readings.LH)
        cnt == IF i > n THEN 0 ELSE (n - i) \div payloadLen + 1
        ones == SumTo([k \in 1..cnt |->
                          readings.LH[i + (k - 1) * payloadLen]
                        + readings.HL[i + (k - 1) * payloadLen]], cnt)
    IN  <<2 * cnt - ones, ones>>

tallyTileBits(readings, payloadLen) ==
    IF readings.tooSmall
    THEN [bits |-> [i \in 1..payloadLen |-> 0], syncScore |-> 0]
    ELSE [bits |-> Stored([i \in 1..payloadLen |->
                      LET v == tileVotes(readings, payloadLen, i)
                      IN  IF v[2] >= v[1] THEN 1 ELSE 0]),
          syncScore |-> readings.sync]

extractTileBits(tile, payloadLen) == tallyTileBits(tileReadings(tile), payloadLen)

-----------------------------------------------------------------------------
(* embedWatermark, v3 *)

RECURSIVE embedTiles(_, _, _)
\* The tile loop of embedWatermark: read, embed and write back, in order.
embedTiles(yChannel, tiles, encodedBits) ==
    IF tiles = <<>> THEN yChannel
    ELSE LET tile == Head(tiles)
             tileData == readTile(yChannel, tile)
             embeddedTile == embedTile(tileData, encodedBits)
         IN  embedTiles(writeTile(yChannel, tile, embeddedTile), Tail(tiles), encodedBits)

\* `${creatorId}|${timestamp}`.slice(0, MAX_PAYLOAD_CHARS); 124 is "|".
rawPayloadOf(watermarkData) ==
    LET joined == watermarkData.creatorId \o <<124>> \o watermarkData.timestamp
    IN  SubSeq(joined, 1, Min(Len(joined), MAX_PAYLOAD_CHARS))

\* A plausible slip: the new luminance is written into the three channels
\* instead of the difference being added to them.
embedWatermark_WritesLuma(image, watermarkData) ==
    LET width == image.width - (image.width % 2)
        height == image.height - (image.height % 2)
        pixels == image.pixels
        yChannel == yChannelOf(pixels, height, width)
        rawPayload == rawPayloadOf(watermarkData)
        rawBits == stringToBinary(rawPayload)
        encodedBits == Stored(rsEncode(rawBits))
        tiles == computeTiles(height, width)
        newChannel == embedTiles(yChannel, tiles, encodedBits)
        moved(p, newY) ==
            << ToUint8Clamp(Max(0, Min(255 * UNIT, newY))),
               ToUint8Clamp(Max(0, Min(255 * UNIT, newY))),
               ToUint8Clamp(Max(0, Min(255 * UNIT, newY))) >>
            \o SubSeq(p, 4, Len(p))
    IN  [width |-> width, height |-> height,
         pixels |-> Stored([y \in 1..height |-> Stored([x \in 1..width |->
             moved(pixels[y][x], newChannel[y][x])])])]

\* The watermarked image that embedWatermark encodes as a PNG data URL; PNG
\* keeps the pixels of an opaque image as they are.  A pixel that carries
\* its alpha as a fourth value keeps it: pixels[i + 3] is not written.
embedWatermark(image, watermarkData) ==
    LET width == image.width - (image.width % 2)
        height == image.height - (image.height % 2)
        pixels == image.pixels
        yChannel == yChannelOf(pixels, height, width)
        rawPayload == rawPayloadOf(watermarkData)
        rawBits == stringToBinary(rawPayload)
        encodedBits == Stored(rsEncode(rawBits))
        tiles == computeTiles(height, width)
        newChannel == embedTiles(yChannel, tiles, encodedBits)
        moved(p, diff) ==
            << ToUint8Clamp(Max(0, Min(255 * UNIT, p[1] * UNIT + diff))),
               ToUint8Clamp(Max(0, Min(255 * UNIT, p[2] * UNIT + diff))),
               ToUint8Clamp(Max(0, Min(255 * UNIT, p[3] * UNIT + diff))) >>
            \o SubSeq(p, 4, Len(p))
    IN  [width |-> width, height |-> height,
         pixels |-> Stored([y \in 1..height |-> Stored([x \in 1..width |->
             LET origY == rgbToY(pixels[y][x][1], pixels[y][x][2], pixels[y][x][3])
                 newY == newChannel[y][x]
             IN  moved(pixels[y][x], newY - origY)])])]

-----------------------------------------------------------------------------
(* isoPattern of extractWatermark, on character codes:
   ([a-zA-Z0-9._%+\-]+@[a-zA-Z0-9.\-]+\.[a-zA-Z]{2,})\|
   (\d{4}-\d{2}-\d{2}T\d{2}:\d{2}:\d{2}\.\d{3}Z) *)

IsDigit(c) == c >= 48 /\ c <= 57
IsLetter(c) == (c >= 65 /\ c <= 90) \/ (c >= 97 /\ c <= 122)
\* [a-zA-Z0-9._%+\-]
IsLocalChar(c) == IsLetter(c) \/ IsDigit(c) \/ c \in {46, 95, 37, 43, 45}
\* [a-zA-Z0-9.\-]
IsDomainChar(c) == IsLetter(c) \/ IsDigit(c) \/ c \in {46, 45}

\* dddd-dd-ddTdd:dd:dd.dddZ with 0 standing for a digit
TimestampShape ==
    <<0,0,0,0,45,0,0,45,0,0,84,0,0,58,0,0,58,0,0,46,0,0,0,90>>

IsTimestampAt(str, p) ==
    /\ p + Len(TimestampShape) - 1 <= Len(str)
    /\ \A k \in 1..Len(TimestampShape) :
          IF TimestampShape[k] = 0 THEN IsDigit(str[p + k - 1])
          ELSE str[p + k - 1] = TimestampShape[k]

SetMax(S) == CHOOSE m \in S : \A k \in S : k <= m
SetMin(S) == CHOOSE m \in S : \A k \in S : m <= k

\* The match whose "@" is at index at, as a one-element sequence, or <<>>.
\* Neither "@" nor "|" is in a character class of the pattern, so the local
\* part is the run of local characters ending before the "@", the "|" is the
\* first character after the "@" that no domain class admits, and the top
\* level domain starts after the last "." before that "|".
isoPatternAt(str, at) ==
    LET n == Len(str)
        notLocal == {k \in 1..(at - 1) : ~IsLocalChar(str[k])}
        start == IF notLocal = {} THEN 1 ELSE SetMax(notLocal) + 1
        notDomain == {k \in (at + 1)..n : ~IsDomainChar(str[k])}
        bar == IF notDomain = {} THEN n + 1 ELSE SetMin(notDomain)
        dots == {k \in (at + 1)..(bar - 1) : str[k] = 46}
        dot == IF dots = {} THEN 0 ELSE SetMax(dots)
    IN  IF /\ str[at] = 64
           /\ start < at
           /\ bar <= n
           /\ str[bar] = 124
           /\ dot > at + 1
           /\ bar - dot - 1 >= 2
           /\ \A k \in (dot + 1)..(bar - 1) : IsLetter(str[k])
           /\ IsTimestampAt(str, bar + 1)
        THEN << [creatorId |-> SubSeq(str, start, bar - 1),
                 timestamp |-> SubSeq(str, bar + 1, bar + Len(TimestampShape)),
                 raw |-> SubSeq(str, start, bar + Len(TimestampShape))] >>
        ELSE <<>>

\* rawString.match(isoPattern): the leftmost match, or <<>> for null.
isoPatternMatch(str) ==
    LET ats == {a \in 1..Len(str) : isoPatternAt(str, a) # <<>>}
    IN  IF ats = {} THEN <<>> ELSE isoPatternAt(str, SetMin(ats))

-----------------------------------------------------------------------------
(* extractWatermark, v3 *)

\* weight = 0.3 + syncScore * 0.7, in units of 1 / (10 * SYNC_CELLS)
tileWeight(syncMatches) == 3 * SYNC_CELLS + 7 * syncMatches

\* The readings of every tile of the loaded image.
imageReadings(image) ==
    LET width == image.width - (image.width % 2)
        height == image.height - (image.height % 2)
        yChannel == yChannelOf(image.pixels, height, width)
        tiles == computeTiles(height, width)
    IN  Stored([t \in 1..Len(tiles) |-> tileReadings(readTile(yChannel, tiles[t]))])

\* globalVotes -> bits: position i gets 1 when the votes for 1 are at least
\* the votes for 0.
globalBits(tileBits, weights, bitLen) ==
    LET T == Len(tileBits)
        votes(i, bit) ==
            SumTo([t \in 1..T |-> IF tileBits[t].bits[i] = bit THEN weights[t] ELSE 0], T)
    IN  Stored([i \in 1..bitLen |-> IF votes(i, 1) >= votes(i, 0) THEN 1 ELSE 0])

\* globalVotes after the tile loop: <<v0, v1>> for every position, in the
\* units of tileWeight.
globalVotes(tileBits, weights, bitLen) ==
    LET T == Len(tileBits)
        votes(i, bit) ==
            SumTo([t \in 1..T |-> IF tileBits[t].bits[i] = bit THEN weights[t] ELSE 0], T)
    IN  Stored([i \in 1..bitLen |-> <<votes(i, 0), votes(i, 1)>>])

\* One iteration of the first loop (with ECC) for one charLen.
eccCandidate(readings, charLen) ==
    LET encodedBitLen == charLen * 8 * RS_REDUNDANCY
        T == Len(readings)
        tileBits == Stored([t \in 1..T |-> tallyTileBits(readings[t], encodedBitLen)])
        weights == Stored([t \in 1..T |-> tileWeight(tileBits[t].syncScore)])
        encodedBits == globalBits(tileBits, weights, encodedBitLen)
        rawBits == Stored(rsDecode(encodedBits, charLen * 8))
        rawString == binaryToString(rawBits)
    IN  isoPatternMatch(rawString)

\* One iteration of the fallback loop (no ECC, every tile counts 1).
rawCandidate(readings, charLen) ==
    LET T == Len(readings)
        tileBits == Stored([t \in 1..T |-> tallyTileBits(readings[t], charLen * 8)])
        weights == Stored([t \in 1..T |-> 1])
        rawBits == globalBits(tileBits, weights, charLen * 8)
        rawString == binaryToString(rawBits)
    IN  isoPatternMatch(rawString)

-----------------------------------------------------------------------------
(* One embedWatermark call followed by extractWatermark on its output *)

\* Images tried: squares of one full tile and one smallest kept tile a side
\* (160 x 160, four tiles).  A pixel is a base colour plus a grain pattern;
\* the base colours are NumLevels levels from 0 to 255, as they are or with
\* one channel inverted (NumTints tints), and the grain is 0..MaxGrain.
NumLevels == 3
NumTints == 2
MaxGrain == 1
ImageSide == TILE_SIZE + 32
Levels == {(255 * k) \div (NumLevels - 1) : k \in 0..(NumLevels - 1)}

SamplePixel(level, tint, grain, y, x) ==
    LET wave == grain * (((3 * x + 5 * y) % 7) - 3)
        ch(v) == Max(0, Min(255, v + wave))
    IN  << ch(IF tint % 2 = 0 THEN 255 - level ELSE level),
           ch(IF tint % 3 = 0 THEN 255 - level ELSE level),
           ch(level) >>

SampleImage(level, tint, grain) ==
    [width |-> ImageSide, height |-> ImageSide,
     pixels |-> [y \in 1..ImageSide |-> [x \in 1..ImageSide |->
                    SamplePixel(level, tint, grain, y, x)]]]

\* creatorId "alice@x.com", timestamp "2024-01-01T00:00:00.000Z"
SampleData ==
    [creatorId |-> <<97,108,105,99,101,64,120,46,99,111,109>>,
     timestamp |-> <<50,48,50,52,45,48,49,45,48,49,84,48,48,58,48,48,58,48,48,
                     46,48,48,48,90>>]

WmInit ==
    /\ wPc = "start"
    /\ \E level \in Levels, tint \in 1..NumTints, grain \in 0..MaxGrain :
          wImage = SampleImage(level, tint, grain)
    /\ wData = SampleData
    /\ wMarked = <<>>
    /\ wReadings = <<>>
    /\ wPhase = "none"
    /\ wCharLen = 0
    /\ wResult = <<>>

\* embedWatermark called with any watermarkData: images of one smallest kept
\* tile (32 x 32), a creatorId that is empty, short or long, a timestamp
\* that is empty or well formed.  The long creatorId makes the joined
\* payload longer than MAX_PAYLOAD_CHARS.
SmallSide == TILE_SIZE \div 4
SmallSampleImage(level, tint, grain) ==
    [width |-> SmallSide, height |-> SmallSide,
     pixels |-> [y \in 1..SmallSide |-> [x \in 1..SmallSide |->
                    SamplePixel(level, tint, grain, y, x)]]]

\* "a...a@x.com" of n characters, or the empty string
CreatorIdOfLen(n) ==
    IF n = 0 THEN <<>>
    ELSE [i \in 1..(n - 6) |-> 97] \o <<64,120,46,99,111,109>>

LongCreatorLen == MAX_PAYLOAD_CHARS - 20
CreatorIdSamples ==
    {CreatorIdOfLen(n) : n \in {0, Len(SampleData.creatorId), LongCreatorLen}}
TimestampSamples == {<<>>, SampleData.timestamp}

WmInputsInit ==
    /\ wPc = "start"
    /\ \E level \in Levels, tint \in 1..NumTints, grain \in 0..MaxGrain :
          wImage = SmallSampleImage(level, tint, grain)
    /\ \E creatorId \in CreatorIdSamples, timestamp \in TimestampSamples :
          wData = [creatorId |-> creatorId, timestamp |-> timestamp]
    /\ wMarked = <<>>
    /\ wReadings = <<>>
    /\ wPhase = "none"
    /\ wCharLen = 0
    /\ wResult = <<>>

\* embedWatermark and extractWatermark for payloads of several lengths: an
\* image of one full tile (TILE_SIZE x TILE_SIZE, mid grey with and without
\* grain), whose bands hold every encoded payload, and creatorIds
\* "a...a@x.com" of MinCreatorLen .. MinCreatorLen + NumPayloadLens - 1
\* characters with the well-formed timestamp.
NumPayloadLens == 4
MinCreatorLen == 14
OneTileImage(level, tint, grain) ==
    [width |-> TILE_SIZE, height |-> TILE_SIZE,
     pixels |-> [y \in 1..TILE_SIZE |-> [x \in 1..TILE_SIZE |->
                    SamplePixel(level, tint, grain, y, x)]]]

WmLengthsInit ==
    /\ wPc = "start"
    /\ \E grain \in 0..MaxGrain :
          wImage = OneTileImage(255 \div 2, 1, grain)
    /\ \E n \in MinCreatorLen..(MinCreatorLen + NumPayloadLens - 1) :
          wData = [creatorId |-> CreatorIdOfLen(n), timestamp |-> SampleData.timestamp]
    /\ wMarked = <<>>
    /\ wReadings = <<>>
    /\ wPhase = "none"
    /\ wCharLen = 0
    /\ wResult = <<>>

\* embedWatermark on images with alpha in the pixel buffer: SmallSide high
\* and either SmallSide wide (one tile, every pixel covered) or TILE_SIZE + 2
\* wide (one tile and two columns that no kept tile covers); the alpha of a
\* pixel is one of AlphaSamples, by its position.
AlphaSamples == <<0, 128, 255>>
FrameWidths == {SmallSide, TILE_SIZE + 2}

FrameImage(width, level, tint, grain, shift) ==
    [width |-> width, height |-> SmallSide,
     pixels |-> [y \in 1..SmallSide |-> [x \in 1..width |->
                    SamplePixel(level, tint, grain, y, x)
                    \o << AlphaSamples[((x + y + shift) % Len(AlphaSamples)) + 1] >>]]]

WmFrameInit ==
    /\ wPc = "start"
    /\ \E width \in FrameWidths, level \in Levels, tint \in 1..NumTints,
          grain \in 0..MaxGrain, shift \in 0..1 :
          wImage = FrameImage(width, level, tint, grain, shift)
    /\ wData = SampleData
    /\ wMarked = <<>>
    /\ wReadings = <<>>
    /\ wPhase = "none"
    /\ wCharLen = 0
    /\ wResult = <<>>

WmIdle ==
    /\ wPc = "idle" /\ wImage = <<>> /\ wData = <<>> /\ wMarked = <<>>
    /\ wReadings = <<>> /\ wPhase = "none" /\ wCharLen = 0 /\ wResult = <<>>

\* embedWatermark resolves with the watermarked image.
EmbedWatermarkStep ==
    /\ wPc = "start"
    /\ wMarked' = embedWatermark(wImage, wData)
    /\ wPc' = "embedded"
    /\ UNCHANGED <<wImage, wData, wReadings, wPhase, wCharLen, wResult>>
    /\ UNCHANGED notWm

\* embedWatermark on a data URL that the browser cannot decode: img.onerror
\* rejects the promise.
EmbedWatermarkLoadError ==
    /\ wPc = "start"
    /\ wPc' = "embedRejected"
    /\ UNCHANGED <<wImage, wData, wMarked, wReadings, wPhase, wCharLen, wResult>>
    /\ UNCHANGED notWm

\* extractWatermark, img.onload up to the first loop.  The readings of the
\* tiles are the same in every iteration, so they are taken once.
ExtractWatermarkLoad ==
    /\ wPc = "embedded"
    /\ wReadings' = imageReadings(wMarked)
    /\ wPhase' = "ecc"
    /\ wCharLen' = 30
    /\ wPc' = "scanning"
    /\ UNCHANGED <<wImage, wData, wMarked, wResult>>
    /\ UNCHANGED notWm

\* extractWatermark on a data URL that the browser cannot decode: img.onerror
\* rejects the promise and no loop runs.
ExtractWatermarkLoadError ==
    /\ wPc = "embedded"
    /\ wPc' = "rejected"
    /\ UNCHANGED <<wImage, wData, wMarked, wReadings, wPhase, wCharLen, wResult>>
    /\ UNCHANGED notWm

\* A plausible slip: a match is remembered but the loop runs on, so the last
\* matching length wins.
ExtractEccIteration_LastMatchWins ==
    /\ wPc = "scanning"
    /\ wPhase = "ecc"
    /\ LET match == eccCandidate(wReadings, wCharLen)
           found == IF match # <<>> THEN match ELSE wResult
       IN  IF wCharLen + 2 <= MAX_PAYLOAD_CHARS
           THEN /\ wCharLen' = wCharLen + 2
                /\ wResult' = found
                /\ UNCHANGED <<wPc, wPhase>>
           ELSE IF found # <<>>
           THEN /\ wResult' = found
                /\ wPc' = "resolved"
                /\ UNCHANGED <<wPhase, wCharLen>>
           ELSE /\ wPhase' = "raw"
                /\ wCharLen' = 40
                /\ UNCHANGED <<wPc, wResult>>
    /\ UNCHANGED <<wImage, wData, wMarked, wReadings>>
    /\ UNCHANGED notWm

\* One iteration of: for (charLen = 30; charLen <= MAX_PAYLOAD_CHARS; charLen += 2)
ExtractEccIteration ==
    /\ wPc = "scanning"
    /\ wPhase = "ecc"
    /\ LET match == eccCandidate(wReadings, wCharLen)
       IN  IF match # <<>>
           THEN /\ wResult' = match
                /\ wPc' = "resolved"
                /\ UNCHANGED <<wPhase, wCharLen>>
           ELSE IF wCharLen + 2 <= MAX_PAYLOAD_CHARS
           THEN /\ wCharLen' = wCharLen + 2
                /\ UNCHANGED <<wPc, wPhase, wResult>>
           ELSE /\ wPhase' = "raw"
                /\ wCharLen' = 40
                /\ UNCHANGED <<wPc, wResult>>
    /\ UNCHANGED <<wImage, wData, wMarked, wReadings>>
    /\ UNCHANGED notWm

\* A plausible slip: falling out of the fallback loop is reported as an error.
ExtractRawIteration_NotFoundRejects ==
    /\ wPc = "scanning"
    /\ wPhase = "raw"
    /\ LET match == rawCandidate(wReadings, wCharLen)
       IN  IF match # <<>>
           THEN /\ wResult' = match
                /\ wPc' = "resolved"
                /\ UNCHANGED <<wPhase, wCharLen>>
           ELSE IF wCharLen + 4 <= MAX_PAYLOAD_CHARS
           THEN /\ wCharLen' = wCharLen + 4
                /\ UNCHANGED <<wPc, wPhase, wResult>>
           ELSE /\ wPc' = "rejected"
                /\ UNCHANGED <<wPhase, wCharLen, wResult>>
    /\ UNCHANGED <<wImage, wData, wMarked, wReadings>>
    /\ UNCHANGED notWm

\* One iteration of: for (charLen = 40; charLen <= MAX_PAYLOAD_CHARS; charLen += 4),
\* and resolve(null) after the last one.
ExtractRawIteration ==
    /\ wPc = "scanning"
    /\ wPhase = "raw"
    /\ LET match == rawCandidate(wReadings, wCharLen)
       IN  IF match # <<>>
           THEN /\ wResult' = match
                /\ wPc' = "resolved"
                /\ UNCHANGED <<wPhase, wCharLen>>
           ELSE IF wCharLen + 4 <= MAX_PAYLOAD_CHARS
           THEN /\ wCharLen' = wCharLen + 4
                /\ UNCHANGED <<wPc, wPhase, wResult>>
           ELSE /\ wResult' = <<>>
                /\ wPc' = "resolved"
                /\ UNCHANGED <<wPhase, wCharLen>>
    /\ UNCHANGED <<wImage, wData, wMarked, wReadings>>
    /\ UNCHANGED notWm

WmNext ==
    \/ EmbedWatermarkStep
    \/ EmbedWatermarkLoadError
    \/ ExtractWatermarkLoad
    \/ ExtractWatermarkLoadError
    \/ ExtractEccIteration
    \/ ExtractRawIteration

-----------------------------------------------------------------------------
(* watermark_registry hash chain (supabase/migrations): the BEFORE INSERT
   trigger set_chain_hash and the sweep verify_chain_integrity.

   A text value is a sequence of tokens, || is \o, and sha256 is a digest
   that differs whenever its input differs.  One insert statement runs at a
   time; the trigger reads the rows that are in the table before it. *)

NullText == <<"\\N">>
GENESIS == <<"GENESIS">>
Bar == <<"|">>

\* COALESCE(x, '')
Coalesce(x) == IF x = NullText THEN <<>> ELSE x

\* encode(sha256(payload::bytea), 'hex')
sha256Hex(payload) == <<"sha256">> \o payload

\* creator_id || '|' || timestamp || '|' || image_hash || '|' ||
\* COALESCE(prompt, '') || '|' || _prev_hash
chainPayload(rec, prevHash) ==
    rec.creator_id \o Bar \o rec.timestamp \o Bar \o rec.image_hash \o Bar
        \o Coalesce(rec.prompt) \o Bar \o prevHash

TableRows(table) == { table[i] : i \in 1..Len(table) }

\* A plausible slip: the trigger links to the oldest row instead of the most
\* recent one (ORDER BY created_at ASC).
set_chain_hash_LinksOldest(newRow, table) ==
    LET others == { r \in TableRows(table) : r.id # newRow.id }
        first == { r \in others : \A q \in others : q.created_at >= r.created_at }
        selected == IF others = {} THEN {NullText} ELSE { r.chain_hash : r \in first }
    IN  { LET prevHash == IF sel = NullText THEN GENESIS ELSE sel
          IN  [newRow EXCEPT !.prev_hash = prevHash,
                          !.chain_hash = sha256Hex(chainPayload(newRow, prevHash))]
          : sel \in selected }

\* The rows the trigger can return for NEW (newRow): SELECT chain_hash ... WHERE id !=
\* NEW.id ORDER BY created_at DESC LIMIT 1 takes a row with the greatest
\* created_at (any of them when several share it), NULL when there is none.
set_chain_hash(newRow, table) ==
    LET others == { r \in TableRows(table) : r.id # newRow.id }
        latest == { r \in others : \A q \in others : q.created_at <= r.created_at }
        selected == IF others = {} THEN {NullText} ELSE { r.chain_hash : r \in latest }
    IN  { LET prevHash == IF sel = NullText THEN GENESIS ELSE sel
          IN  [newRow EXCEPT !.prev_hash = prevHash,
                          !.chain_hash = sha256Hex(chainPayload(newRow, prevHash))]
          : sel \in selected }

\* The orders in which ORDER BY created_at ASC can deliver the rows: every
\* arrangement of the table positions with created_at never decreasing.
Arrangements(n) ==
    { p \in [1..n -> 1..n] : \A i, j \in 1..n : i # j => p[i] # p[j] }

ScanOrders(table) ==
    { p \in Arrangements(Len(table)) :
        \A i \in 1..(Len(table) - 1) :
            table[p[i]].created_at <= table[p[i + 1]].created_at }

RECURSIVE sweepLoop(_, _, _, _)
\* The FOR loop of verify_chain_integrity from position k of the scan on,
\* with _prev_hash as it stands.
sweepLoop(table, order, k, prevHash) ==
    IF k > Len(order) THEN <<>>
    ELSE LET rec == table[order[k]]
             expected == sha256Hex(chainPayload(rec, prevHash))
         IN  << [id |-> rec.id,
                 is_valid |-> (expected = rec.chain_hash) /\ (prevHash = rec.prev_hash),
                 expected_hash |-> expected,
                 actual_hash |-> rec.chain_hash] >>
             \o sweepLoop(table, order, k + 1, rec.chain_hash)

\* A plausible slip: the scan runs newest first (ORDER BY created_at DESC).
verify_chain_integrity_NewestFirst(table, order) ==
    sweepLoop(table, [i \in 1..Len(order) |-> order[Len(order) + 1 - i]], 1, GENESIS)

verify_chain_integrity(table, order) == sweepLoop(table, order, 1, GENESIS)

\* Tables tried: up to MaxRows inserts by NumClients creators, with or
\* without a prompt, each with a client-side created_at in 1..MaxClock
\* (saveLedgerEntry sends entry.createdAt, so it need not grow with the
\* order of arrival).
MaxRows == 3
NumClients == 2
MaxClock == 3

ChainInit ==
    /\ cTable = <<>>
    /\ cNextId = 1
    /\ cOrder = <<>>
    /\ cSweep = <<>>
    /\ cTampered = {}

ChainIdle ==
    /\ cTable = <<>> /\ cNextId = 0 /\ cOrder = <<>> /\ cSweep = <<>>
    /\ cTampered = {}

\* supabase.from('watermark_registry').insert({...}) with the trigger.
RegistryInsert ==
    /\ cNextId >= 1
    /\ cNextId <= MaxRows
    /\ \E c \in 1..NumClients, withPrompt \in BOOLEAN, at \in 1..MaxClock :
          LET newRow == [id |-> cNextId,
                      creator_id |-> <<"creator", c>>,
                      timestamp |-> <<"at", at>>,
                      prompt |-> IF withPrompt THEN <<"prompt">> ELSE NullText,
                      image_hash |-> <<"image", cNextId>>,
                      created_at |-> at,
                      prev_hash |-> NullText,
                      chain_hash |-> NullText]
          IN  \E row \in set_chain_hash(newRow, cTable) :
                 cTable' = Append(cTable, row)
    /\ cNextId' = cNextId + 1
    /\ cOrder' = <<>>
    /\ cSweep' = <<>>
    /\ UNCHANGED cTampered
    /\ UNCHANGED notChain

\* SELECT * FROM verify_chain_integrity()
VerifyChainIntegrity ==
    /\ cNextId >= 1
    /\ \E order \in ScanOrders(cTable) :
          /\ cOrder' = order
          /\ cSweep' = verify_chain_integrity(cTable, order)
    /\ UNCHANGED <<cTable, cNextId, cTampered>>
    /\ UNCHANGED notChain

\* A stored row is rewritten behind the policies (the table owner or the
\* service role; RLS gives the clients no UPDATE): one of creator_id,
\* image_hash and prompt gets another value, prev_hash and chain_hash stay.
\* The BEFORE INSERT trigger does not run on UPDATE.  At most one row of a
\* table is rewritten.
TamperRecord ==
    /\ cNextId >= 1
    /\ cTampered = {}
    /\ \E k \in 1..Len(cTable) :
          \E changed \in
              { [cTable[k] EXCEPT !.creator_id = <<"creator", c>>] : c \in 1..NumClients }
              \cup { [cTable[k] EXCEPT !.image_hash = <<"image", 0>>] }
              \cup { [cTable[k] EXCEPT !.prompt = p] :
                        p \in {NullText, <<>>, <<"prompt">>} } :
              /\ changed # cTable[k]
              /\ cTable' = [cTable EXCEPT ![k] = changed]
              /\ cTampered' = {cTable[k].id}
    /\ cOrder' = <<>>
    /\ cSweep' = <<>>
    /\ UNCHANGED cNextId
    /\ UNCHANGED notChain

ChainNext == RegistryInsert \/ VerifyChainIntegrity \/ TamperRecord

-----------------------------------------------------------------------------
(* One embedTile call followed by extractTileBits on its output, v3 *)

\* Tiles tried: sides 2, 4, ... up to 2 ^ MaxSideLog, luminance of the grey
\* sample pixels; encodedBits of 1..MaxTileBits bits.  The sides cover a
\* tile too small to embed, tiles whose HH band is too small for the sync
\* markers, and tiles whose HH band takes them.
MaxSideLog == 4
MaxTileBits == 5
TileSides == {2 ^ k : k \in 1..MaxSideLog}

SampleTile(height, width, level, grain) ==
    [y \in 1..height |-> [x \in 1..width |->
        LET p == SamplePixel(level, 1, grain, y, x)
        IN  rgbToY(p[1], p[2], p[3])]]

RtInit ==
    /\ rPc = "start"
    /\ \E height \in TileSides, width \in TileSides,
          level \in Levels, grain \in 0..MaxGrain :
          rTile = SampleTile(height, width, level, grain)
    /\ rBits \in BitSeqs(MaxTileBits) \ {<<>>}
    /\ rMarked = <<>>
    /\ rOut = <<>>

RtIdle ==
    /\ rPc = "off" /\ rTile = <<>> /\ rBits = <<>> /\ rMarked = <<>> /\ rOut = <<>>

EmbedTileStep ==
    /\ rPc = "start"
    /\ rMarked' = embedTile(rTile, rBits)
    /\ rPc' = "embedded"
    /\ UNCHANGED <<rTile, rBits, rOut>>
    /\ UNCHANGED notRt

\* extractTileBits on the tile embedTile returned, its values as they are.
ExtractTileBitsStep ==
    /\ rPc = "embedded"
    /\ rOut' = << extractTileBits(rMarked, Len(rBits)) >>
    /\ rPc' = "extracted"
    /\ UNCHANGED <<rTile, rBits, rMarked>>
    /\ UNCHANGED notRt

RtNext == EmbedTileStep \/ ExtractTileBitsStep

-----------------------------------------------------------------------------
(* One iteration of the first loop of extractWatermark, from the readings
   of the tiles to encodedBits *)

\* A tile that is not too small has bands of at least 2 x 2 cells.
MinBandCells == 2 * 2

\* Readings tried: up to MaxVoteTiles tiles with bands of MinBandCells cells;
\* LH reads any bits, HL reads the same bits or the opposite bit in every
\* cell; no marker cell matches or all do.  encodedBitLen is 1..MaxVoteLen,
\* so that the bands cover every position, or not the last ones.
MaxVoteTiles == 2
MaxVoteLen == 5

TileReadingSamples ==
    { [tooSmall |-> FALSE, LH |-> lh,
       HL |-> [k \in 1..MinBandCells |-> IF same THEN lh[k] ELSE 1 - lh[k]],
       sync |-> sync] :
         lh \in [1..MinBandCells -> {0, 1}], same \in BOOLEAN, sync \in {0, SYNC_CELLS} }

VoteInit ==
    /\ gPc = "start"
    /\ \E T \in 1..MaxVoteTiles : gReadings \in [1..T -> TileReadingSamples]
    /\ gLen \in 1..MaxVoteLen
    /\ gTileBits = <<>>
    /\ gVotes = <<>>
    /\ gBits = <<>>

VoteIdle ==
    /\ gPc = "off" /\ gReadings = <<>> /\ gLen = 0
    /\ gTileBits = <<>> /\ gVotes = <<>> /\ gBits = <<>>

\* extractTileBits of every tile, from its readings.
TallyTilesStep ==
    /\ gPc = "start"
    /\ gTileBits' = [t \in 1..Len(gReadings) |-> tallyTileBits(gReadings[t], gLen)]
    /\ gPc' = "tallied"
    /\ UNCHANGED <<gReadings, gLen, gVotes, gBits>>
    /\ UNCHANGED notVote

\* globalVotes[i][bits[i]] += weight for every tile, then the decision.
GlobalVoteStep ==
    /\ gPc = "tallied"
    /\ LET weights == [t \in 1..Len(gTileBits) |-> tileWeight(gTileBits[t].syncScore)]
       IN  /\ gVotes' = globalVotes(gTileBits, weights, gLen)
           /\ gBits' = globalBits(gTileBits, weights, gLen)
    /\ gPc' = "voted"
    /\ UNCHANGED <<gReadings, gLen, gTileBits>>
    /\ UNCHANGED notVote

VoteNext == TallyTilesStep \/ GlobalVoteStep

-----------------------------------------------------------------------------
(* saveLedgerEntry as the page runs it: the part before the await in one
   step, the answer of the registry insert in another, so that calls overlap.
   No verifyImage call is made. *)

\* The store is empty and verifyImage is not running.
SaveStoreInit ==
    /\ registry = <<>> /\ ledger = <<>> /\ nextId = 1
    /\ vPc = "off" /\ vImage = 0 /\ vExtracted = <<>> /\ vCurrentHash = <<>>
    /\ vLookups = <<>> /\ vResult = <<>>

SaveIdle ==
    /\ lPending = <<>> /\ lCompleted = <<>> /\ lEvents = 0

\* getLedger, unshift, localStorage.setItem and the start of the insert: all
\* of it runs before the page can run anything else.
SaveLedgerStart ==
    /\ vPc = "off"
    /\ nextId >= 1
    /\ nextId <= MaxSaves
    /\ \E c \in Creators, t \in Timestamps, img \in Images :
          LET entry == [id |-> nextId, creatorId |-> c, timestamp |-> t,
                        imageHash |-> generateHash(img)]
          IN  /\ ledger' = <<entry>> \o ledger
              /\ lPending' = Append(lPending, entry)
    /\ nextId' = nextId + 1
    /\ UNCHANGED <<registry, lCompleted, lEvents>>
    /\ UNCHANGED notSave

\* A plausible slip: a failed insert takes the entry out of the local ledger
\* again and the call throws.
SaveLedgerInsertAnswer_ErrorRollsBack ==
    /\ vPc = "off"
    /\ \E k \in 1..Len(lPending), error \in BOOLEAN :
          LET entry == lPending[k]
          IN  /\ registry' = IF error THEN registry
                             ELSE Append(registry, toRegistryRow(entry))
              /\ ledger' = IF error THEN SelectSeq(ledger, LAMBDA e : e.id # entry.id)
                           ELSE ledger
              /\ lPending' = [j \in 1..(Len(lPending) - 1) |->
                                 IF j < k THEN lPending[j] ELSE lPending[j + 1]]
              /\ lCompleted' = Append(lCompleted,
                                   [id |-> entry.id, error |-> error, threw |-> error])
              /\ lEvents' = IF error THEN lEvents ELSE lEvents + 1
    /\ UNCHANGED nextId
    /\ UNCHANGED notSave

\* The insert of one of the calls in flight answers, with a row stored or
\* with an error; the error is logged, the 'storage' event is dispatched and
\* the call returns.
SaveLedgerInsertAnswer ==
    /\ vPc = "off"
    /\ \E k \in 1..Len(lPending), error \in BOOLEAN :
          LET entry == lPending[k]
          IN  /\ registry' = IF error THEN registry
                             ELSE Append(registry, toRegistryRow(entry))
              /\ lPending' = [j \in 1..(Len(lPending) - 1) |->
                                 IF j < k THEN lPending[j] ELSE lPending[j + 1]]
              /\ lCompleted' = Append(lCompleted,
                                   [id |-> entry.id, error |-> error, threw |-> FALSE])
    /\ lEvents' = lEvents + 1
    /\ UNCHANGED <<ledger, nextId>>
    /\ UNCHANGED notSave

SaveNext == SaveLedgerStart \/ SaveLedgerInsertAnswer

-----------------------------------------------------------------------------
(* The verification components VerifyPanel and VerificationTool: the React
   state sourceImage / currentStep / result, the event handlers that load an
   image, and runVerification, whose awaits let the handlers run in between.
   A verdict carries the hash of the image it was computed from. *)

UiPanels == {"VerifyPanel", "VerificationTool"}
VerdictStatuses == {"registered", "unregistered"}
NoImage == 0
MaxUiCalls == 4

\* The values currentStep takes in runVerification, in the order it sets them.
VerificationSteps == <<"uploading", "extracting", "hashing", "looking_up", "comparing">>

isProcessing(currentStep) == currentStep # "idle" /\ currentStep # "complete"

\* The notification runVerification raises for a verdict.
VerdictToast(panel, status) ==
    IF panel = "VerifyPanel"
    THEN IF status = "genuine"
         THEN [kind |-> "success", text |-> "Image is genuine!"]
         ELSE [kind |-> "error", text |-> "Image may be tampered"]
    ELSE IF status = "authentic"
         THEN [kind |-> "success", text |-> "Image verified as authentic!"]
         ELSE IF status = "tampered"
              THEN [kind |-> "warning", text |-> "Image appears to have been modified"]
              ELSE [kind |-> "error", text |-> "Image not found in registry"]

\* The status card rendered for a verdict: colour of the border, icon, title.
\* VerificationTool's three switch statements have no default branch.
StatusCard(panel, status) ==
    IF panel = "VerifyPanel"
    THEN [tone |-> IF status = "genuine" THEN "positive" ELSE "destructive",
          icon |-> IF status = "genuine" THEN "CheckCircle"
                   ELSE IF status = "tampered" THEN "XCircle" ELSE "none",
          text |-> IF status = "genuine" THEN "Genuine" ELSE "Tampered"]
    ELSE [tone |-> IF status = "authentic" THEN "positive"
                   ELSE IF status = "tampered" THEN "warning"
                   ELSE IF status = "unregistered" THEN "destructive" ELSE "none",
          icon |-> IF status = "authentic" THEN "CheckCircle"
                   ELSE IF status = "tampered" THEN "AlertTriangle"
                   ELSE IF status = "unregistered" THEN "XCircle" ELSE "none",
          text |-> IF status = "authentic" THEN "Authentic Image"
                   ELSE IF status = "tampered" THEN "Tampered Image"
                   ELSE IF status = "unregistered" THEN "Unregistered Image" ELSE "none"]

Without(q, k) == [j \in 1..(Len(q) - 1) |-> IF j < k THEN q[j] ELSE q[j + 1]]

UiInit ==
    /\ uPanel \in UiPanels
    /\ uSource = NoImage /\ uStep = "idle" /\ uResult = <<>>
    /\ uToast = <<>> /\ uRuns = <<>> /\ uLoads = <<>> /\ uCalls = 0

UiIdle ==
    /\ uPanel = "unmounted"
    /\ uSource = NoImage /\ uStep = "idle" /\ uResult = <<>>
    /\ uToast = <<>> /\ uRuns = <<>> /\ uLoads = <<>> /\ uCalls = 0

\* The file input changes: a file that is not an image is refused with a
\* toast, an image is handed to a FileReader.
HandleFileUpload ==
    /\ uPanel \in UiPanels
    /\ uCalls < MaxUiCalls
    /\ \E isImage \in BOOLEAN, img \in Images :
          /\ uToast' = IF isImage THEN uToast
                       ELSE [kind |-> "error", text |-> "Please upload an image file"]
          /\ uLoads' = IF isImage THEN Append(uLoads, [kind |-> "reader", image |-> img])
                       ELSE uLoads
    /\ uCalls' = uCalls + 1
    /\ UNCHANGED <<uPanel, uSource, uStep, uResult, uRuns>>
    /\ UNCHANGED notUi

\* An image is pasted on the drop zone and handed to a FileReader.
HandlePaste ==
    /\ uPanel \in UiPanels
    /\ uCalls < MaxUiCalls
    /\ \E img \in Images :
          uLoads' = Append(uLoads, [kind |-> "reader", image |-> img])
    /\ uCalls' = uCalls + 1
    /\ UNCHANGED <<uPanel, uSource, uStep, uResult, uToast, uRuns>>
    /\ UNCHANGED notUi

\* reader.onload of an upload or a paste.
ReaderLoaded ==
    /\ \E k \in 1..Len(uLoads) :
          /\ uLoads[k].kind = "reader"
          /\ uSource' = uLoads[k].image
          /\ uLoads' = Without(uLoads, k)
    /\ uResult' = <<>>
    /\ uStep' = "idle"
    /\ UNCHANGED <<uPanel, uToast, uRuns, uCalls>>
    /\ UNCHANGED notUi

\* loadImageFromUrl / handleImageUrl up to its await.
HandleImageUrl ==
    /\ uPanel \in UiPanels
    /\ uCalls < MaxUiCalls
    /\ uStep' = "uploading"
    /\ \E img \in Images :
          uLoads' = Append(uLoads, [kind |-> "url", image |-> img])
    /\ uCalls' = uCalls + 1
    /\ UNCHANGED <<uPanel, uSource, uResult, uToast, uRuns>>
    /\ UNCHANGED notUi

\* loadImageAsDataUrl answers: with the data URL, or with an error.
ImageUrlAnswer ==
    /\ \E k \in 1..Len(uLoads), failed \in BOOLEAN :
          /\ uLoads[k].kind = "url"
          /\ uSource' = IF failed THEN uSource ELSE uLoads[k].image
          /\ uResult' = IF failed THEN uResult ELSE <<>>
          /\ uToast' = IF failed
                       THEN [kind |-> "error", text |-> "Failed to load image from URL"]
                       ELSE [kind |-> "success", text |-> "Image loaded"]
          /\ uLoads' = Without(uLoads, k)
    /\ uStep' = "idle"
    /\ UNCHANGED <<uPanel, uRuns, uCalls>>
    /\ UNCHANGED notUi

\* A click on "Verify Image", which is rendered only for an image that is
\* neither in progress nor complete: runVerification up to its first await.
\* The call keeps the sourceImage of the render it was created in.
RunVerificationStart ==
    /\ uPanel \in UiPanels
    /\ uCalls < MaxUiCalls
    /\ uSource # NoImage
    /\ ~isProcessing(uStep)
    /\ uStep # "complete"
    /\ uStep' = VerificationSteps[1]
    /\ uRuns' = Append(uRuns, [image |-> uSource, at |-> 1])
    /\ uCalls' = uCalls + 1
    /\ UNCHANGED <<uPanel, uSource, uResult, uToast, uLoads>>
    /\ UNCHANGED notUi

\* runVerification resumes after an await and sets the next step.
RunVerificationAdvance ==
    /\ \E k \in 1..Len(uRuns) :
          /\ uRuns[k].at < Len(VerificationSteps)
          /\ uStep' = VerificationSteps[uRuns[k].at + 1]
          /\ uRuns' = [uRuns EXCEPT ![k].at = @ + 1]
    /\ UNCHANGED <<uPanel, uSource, uResult, uToast, uLoads, uCalls>>
    /\ UNCHANGED notUi

\* extractWatermark or verifyImage rejects: the catch block.
RunVerificationError ==
    /\ \E k \in 1..Len(uRuns) :
          /\ VerificationSteps[uRuns[k].at] \in {"extracting", "comparing"}
          /\ uRuns' = Without(uRuns, k)
    /\ uToast' = [kind |-> "error", text |-> "Verification failed"]
    /\ uStep' = "idle"
    /\ UNCHANGED <<uPanel, uSource, uResult, uLoads, uCalls>>
    /\ UNCHANGED notUi

\* verifyImage has answered for the image the call was started with: step 6
\* of runVerification and the toast that follows it.
RunVerificationComplete ==
    /\ \E k \in 1..Len(uRuns), status \in VerdictStatuses :
          /\ VerificationSteps[uRuns[k].at] = "comparing"
          /\ uStep' = "complete"
          /\ uResult' = [status |-> status, currentHash |-> generateHash(uRuns[k].image)]
          /\ uToast' = VerdictToast(uPanel, status)
          /\ uRuns' = Without(uRuns, k)
    /\ UNCHANGED <<uPanel, uSource, uLoads, uCalls>>
    /\ UNCHANGED notUi

\* "Verify Another Image", rendered below a shown result.
VerifyAnotherImage ==
    /\ uResult # <<>>
    /\ uStep = "complete"
    /\ uSource' = NoImage
    /\ uResult' = <<>>
    /\ uStep' = "idle"
    /\ UNCHANGED <<uPanel, uToast, uRuns, uLoads, uCalls>>
    /\ UNCHANGED notUi

\* "Remove" on the preview of VerificationTool, rendered with any image.
RemoveImage ==
    /\ uPanel = "VerificationTool"
    /\ uSource # NoImage
    /\ uSource' = NoImage
    /\ uResult' = <<>>
    /\ uStep' = "idle"
    /\ UNCHANGED <<uPanel, uToast, uRuns, uLoads, uCalls>>
    /\ UNCHANGED notUi

UiNext ==
    \/ HandleFileUpload \/ HandlePaste \/ ReaderLoaded
    \/ HandleImageUrl \/ ImageUrlAnswer
    \/ RunVerificationStart \/ RunVerificationAdvance
    \/ RunVerificationError \/ RunVerificationComplete
    \/ VerifyAnotherImage \/ RemoveImage

-----------------------------------------------------------------------------
(* The payload codec on one string: stringToBinary, rsEncode, rsDecode with
   the bit length of the string, binaryToString; and binaryToString alone on
   a bit array of any length. *)

MaxStrLen == 2
MaxDecodeBits == 10

\* Character codes of the printable ASCII characters, space to tilde.
PrintableAscii == 32..126

CodecInit ==
    /\ pPc = "string"
    /\ pStr \in UNION { [1..n -> PrintableAscii] : n \in 0..MaxStrLen }
    /\ pBits = <<>> /\ pEnc = <<>> /\ pDec = <<>> /\ pOut = <<>>

\* Any bit array is handed to binaryToString.
DecodeInit ==
    /\ pPc = "decoded"
    /\ pDec \in BitSeqs(MaxDecodeBits)
    /\ pStr = <<>> /\ pBits = <<>> /\ pEnc = <<>> /\ pOut = <<>>

CodecIdle ==
    /\ pPc = "idle"
    /\ pStr = <<>> /\ pBits = <<>> /\ pEnc = <<>> /\ pDec = <<>> /\ pOut = <<>>

StringToBinaryStep ==
    /\ pPc = "string"
    /\ pBits' = stringToBinary(pStr)
    /\ pPc' = "binary"
    /\ UNCHANGED <<pStr, pEnc, pDec, pOut>>
    /\ UNCHANGED notCodec

RsEncodePayloadStep ==
    /\ pPc = "binary"
    /\ pEnc' = rsEncode(pBits)
    /\ pPc' = "encoded"
    /\ UNCHANGED <<pStr, pBits, pDec, pOut>>
    /\ UNCHANGED notCodec

RsDecodePayloadStep ==
    /\ pPc = "encoded"
    /\ pDec' = rsDecode(pEnc, 8 * Len(pStr))
    /\ pPc' = "decoded"
    /\ UNCHANGED <<pStr, pBits, pEnc, pOut>>
    /\ UNCHANGED notCodec

BinaryToStringStep ==
    /\ pPc = "decoded"
    /\ pOut' = binaryToString(pDec)
    /\ pPc' = "read"
    /\ UNCHANGED <<pStr, pBits, pEnc, pDec>>
    /\ UNCHANGED notCodec

CodecNext ==
    \/ StringToBinaryStep \/ RsEncodePayloadStep
    \/ RsDecodePayloadStep \/ BinaryToStringStep

-----------------------------------------------------------------------------
(* The sync markers on one band: detectSyncMarkers on the band as it is,
   embedSyncMarkers, detectSyncMarkers on the result. *)

\* Bands tried: sides below, at and above the 8 cells the markers ask for,
\* square and not; coefficients base + pitch * (raster index) quarters, of
\* both signs, so that a band matches the pattern in some cells only.
MaxBandSide == 10
MaxBandBase == 3
MaxBandPitch == 5
BandSides == {4, 7, 8, MaxBandSide}

SampleBand(h, w, base, pitch) ==
    [y \in 1..h |-> [x \in 1..w |->
        (base * 7 + pitch * ((y - 1) * w + x) - 2 * w * pitch) * (UNIT \div 4)]]

SyncInit ==
    /\ mPc = "start"
    /\ \E h \in BandSides, w \in BandSides,
          base \in (-MaxBandBase)..MaxBandBase, pitch \in 0..MaxBandPitch :
          mBand = SampleBand(h, w, base, pitch)
    /\ mScore = 0 /\ mMarked = <<>> /\ mScoreMarked = 0

SyncIdle ==
    /\ mPc = "off" /\ mBand = <<>> /\ mScore = 0 /\ mMarked = <<>> /\ mScoreMarked = 0

DetectSyncStep ==
    /\ mPc = "start"
    /\ mScore' = detectSyncMarkers(mBand)
    /\ mPc' = "scored"
    /\ UNCHANGED <<mBand, mMarked, mScoreMarked>>
    /\ UNCHANGED notSync

EmbedSyncStep ==
    /\ mPc = "scored"
    /\ mMarked' = embedSyncMarkers(mBand)
    /\ mPc' = "marked"
    /\ UNCHANGED <<mBand, mScore, mScoreMarked>>
    /\ UNCHANGED notSync

DetectMarkedStep ==
    /\ mPc = "marked"
    /\ mScoreMarked' = detectSyncMarkers(mMarked)
    /\ mPc' = "rescored"
    /\ UNCHANGED <<mBand, mScore, mMarked>>
    /\ UNCHANGED notSync

SyncNext == DetectSyncStep \/ EmbedSyncStep \/ DetectMarkedStep

-----------------------------------------------------------------------------
(* Specifications *)

InitQim == QimInit /\ EccIdle /\ DwtIdle /\ TileIdle /\ VerIdle /\ V2Idle /\ WmIdle /\ ChainIdle /\ RtIdle /\ VoteIdle /\ SaveIdle /\ UiIdle /\ CodecIdle /\ SyncIdle
SpecQim == InitQim /\ [][QimNext]_vars

InitEcc == QimIdle /\ EccInit /\ DwtIdle /\ TileIdle /\ VerIdle /\ V2Idle /\ WmIdle /\ ChainIdle /\ RtIdle /\ VoteIdle /\ SaveIdle /\ UiIdle /\ CodecIdle /\ SyncIdle
SpecEcc == InitEcc /\ [][EccNext]_vars

InitDwt == QimIdle /\ EccIdle /\ DwtInit /\ TileIdle /\ VerIdle /\ V2Idle /\ WmIdle /\ ChainIdle /\ RtIdle /\ VoteIdle /\ SaveIdle /\ UiIdle /\ CodecIdle /\ SyncIdle
SpecDwt == InitDwt /\ [][DwtNext]_vars

InitTiles == QimIdle /\ EccIdle /\ DwtIdle /\ TileInit /\ VerIdle /\ V2Idle /\ WmIdle /\ ChainIdle /\ RtIdle /\ VoteIdle /\ SaveIdle /\ UiIdle /\ CodecIdle /\ SyncIdle
SpecTiles == InitTiles /\ [][TileNext]_vars

InitVerify == QimIdle /\ EccIdle /\ DwtIdle /\ TileIdle /\ VerInit /\ V2Idle /\ WmIdle /\ ChainIdle /\ RtIdle /\ VoteIdle /\ SaveIdle /\ UiIdle /\ CodecIdle /\ SyncIdle
SpecVerify == InitVerify /\ [][VerNext]_vars

InitEmbedV2 == QimIdle /\ EccIdle /\ DwtIdle /\ TileIdle /\ VerIdle /\ V2Init /\ WmIdle /\ ChainIdle /\ RtIdle /\ VoteIdle /\ SaveIdle /\ UiIdle /\ CodecIdle /\ SyncIdle
SpecEmbedV2 == InitEmbedV2 /\ [][V2Next]_vars

InitEmbedInputs == QimIdle /\ EccIdle /\ DwtIdle /\ TileIdle /\ VerIdle /\ V2Idle /\ WmInputsInit /\ ChainIdle /\ RtIdle /\ VoteIdle /\ SaveIdle /\ UiIdle /\ CodecIdle /\ SyncIdle
EmbedInputsNext == EmbedWatermarkStep \/ EmbedWatermarkLoadError
SpecEmbedInputs == InitEmbedInputs /\ [][EmbedInputsNext]_vars

InitWatermark == QimIdle /\ EccIdle /\ DwtIdle /\ TileIdle /\ VerIdle /\ V2Idle /\ WmInit /\ ChainIdle /\ RtIdle /\ VoteIdle /\ SaveIdle /\ UiIdle /\ CodecIdle /\ SyncIdle
SpecWatermark == InitWatermark /\ [][WmNext]_vars

InitPayloadLengths == QimIdle /\ EccIdle /\ DwtIdle /\ TileIdle /\ VerIdle /\ V2Idle /\ WmLengthsInit /\ ChainIdle /\ RtIdle /\ VoteIdle /\ SaveIdle /\ UiIdle /\ CodecIdle /\ SyncIdle
SpecPayloadLengths == InitPayloadLengths /\ [][WmNext]_vars

InitEmbedFrame == QimIdle /\ EccIdle /\ DwtIdle /\ TileIdle /\ VerIdle /\ V2Idle /\ WmFrameInit /\ ChainIdle /\ RtIdle /\ VoteIdle /\ SaveIdle /\ UiIdle /\ CodecIdle /\ SyncIdle
EmbedFrameNext == EmbedWatermarkStep \/ EmbedWatermarkLoadError
SpecEmbedFrame == InitEmbedFrame /\ [][EmbedFrameNext]_vars

InitTileRoundTrip == QimIdle /\ EccIdle /\ DwtIdle /\ TileIdle /\ VerIdle /\ V2Idle /\ WmIdle /\ ChainIdle /\ RtInit /\ VoteIdle /\ SaveIdle /\ UiIdle /\ CodecIdle /\ SyncIdle
SpecTileRoundTrip == InitTileRoundTrip /\ [][RtNext]_vars

InitGlobalVote == QimIdle /\ EccIdle /\ DwtIdle /\ TileIdle /\ VerIdle /\ V2Idle /\ WmIdle /\ ChainIdle /\ RtIdle /\ VoteInit /\ SaveIdle /\ UiIdle /\ CodecIdle /\ SyncIdle
SpecGlobalVote == InitGlobalVote /\ [][VoteNext]_vars

InitSaveLedger == QimIdle /\ EccIdle /\ DwtIdle /\ TileIdle /\ SaveStoreInit /\ V2Idle /\ WmIdle /\ ChainIdle /\ RtIdle /\ VoteIdle /\ SaveIdle /\ UiIdle /\ CodecIdle /\ SyncIdle
SpecSaveLedger == InitSaveLedger /\ [][SaveNext]_vars

InitChain == QimIdle /\ EccIdle /\ DwtIdle /\ TileIdle /\ VerIdle /\ V2Idle /\ WmIdle /\ ChainInit /\ RtIdle /\ VoteIdle /\ SaveIdle /\ UiIdle /\ CodecIdle /\ SyncIdle
SpecChain == InitChain /\ [][ChainNext]_vars

InitVerifyUi == QimIdle /\ EccIdle /\ DwtIdle /\ TileIdle /\ VerIdle /\ V2Idle /\ WmIdle /\ ChainIdle /\ RtIdle /\ VoteIdle /\ SaveIdle /\ UiInit /\ CodecIdle /\ SyncIdle
SpecVerifyUi == InitVerifyUi /\ [][UiNext]_vars

InitPayloadCodec == QimIdle /\ EccIdle /\ DwtIdle /\ TileIdle /\ VerIdle /\ V2Idle /\ WmIdle /\ ChainIdle /\ RtIdle /\ VoteIdle /\ SaveIdle /\ UiIdle /\ CodecInit /\ SyncIdle
SpecPayloadCodec == InitPayloadCodec /\ [][CodecNext]_vars

InitBinaryToString == QimIdle /\ EccIdle /\ DwtIdle /\ TileIdle /\ VerIdle /\ V2Idle /\ WmIdle /\ ChainIdle /\ RtIdle /\ VoteIdle /\ SaveIdle /\ UiIdle /\ DecodeInit /\ SyncIdle
DecodeNext == BinaryToStringStep
SpecBinaryToString == InitBinaryToString /\ [][DecodeNext]_vars

InitSyncMarkers == QimIdle /\ EccIdle /\ DwtIdle /\ TileIdle /\ VerIdle /\ V2Idle /\ WmIdle /\ ChainIdle /\ RtIdle /\ VoteIdle /\ SaveIdle /\ UiIdle /\ CodecIdle /\ SyncInit
SpecSyncMarkers == InitSyncMarkers /\ [][SyncNext]_vars

-----------------------------------------------------------------------------
(* C2 *)

\* C2: QIM lattice law: for every coefficient c and every bit,
\* qimExtract(qimEmbed(c, bit)) = bit.
C2_QimLatticeLaw == qPc = "extracted" => qRead = qBit

\* The law exercised on a negative coefficient half-way between two points of
\* the bit-1 lattice, embedding bit 1.
C2_Witness ==
    /\ qPc = "extracted"
    /\ qBit = 1
    /\ qCoef = -(QIM_STEP * UNIT)
    /\ qOut # qCoef

-----------------------------------------------------------------------------
(* C5 *)

FlipsInGroup(i) ==
    Cardinality({ idx \in eFlipped : (idx - 1) \div RS_REDUNDANCY = i - 1 })

\* C5: ECC tolerance: a group with at most one flipped copy decodes to the
\* original bit, and a group with two or more flipped copies decodes to the
\* wrong bit.
C5_EccTolerance ==
    ePc = "decoded" =>
        /\ Len(eDec) = Len(eBits)
        /\ \A i \in 1..Len(eBits) :
              /\ FlipsInGroup(i) <= 1 => eDec[i] = eBits[i]
              /\ FlipsInGroup(i) >= 2 => eDec[i] # eBits[i]

\* A decode in which one group lost one copy and another lost two.
C5_Witness ==
    /\ ePc = "decoded"
    /\ Len(eBits) = 2
    /\ FlipsInGroup(1) = 1
    /\ FlipsInGroup(2) = 2
    /\ eDec[1] = eBits[1]

-----------------------------------------------------------------------------
(* C4 *)

IsGrid(g, h, w) == Len(g) = h /\ \A y \in 1..h : Len(g[y]) = w

\* C4: DWT invertibility: idwt2D of the four sub-bands of dwt2D(X) is X,
\* element for element, and each sub-band is (height/2) x (width/2).
C4_DwtInvertible ==
    /\ dPc \in {"transformed", "restored"} =>
          \A band \in {dBands.LL, dBands.LH, dBands.HL, dBands.HH} :
              IsGrid(band, Len(dGrid) \div 2, Len(dGrid[1]) \div 2)
    /\ dPc = "restored" => dBack = dGrid

\* A 4 x 4 grid that is not constant, transformed and restored, with a
\* non-zero detail coefficient.
C4_Witness ==
    /\ dPc = "restored"
    /\ Len(dGrid) = 4 /\ Len(dGrid[1]) = 4
    /\ dBands.HH[1][1] # 0
    /\ dBands.LH[2][2] # 0

-----------------------------------------------------------------------------
(* C6 *)

NominalTileSize == IF tEngine = "v2" THEN TILE_SIZE_V2 ELSE TILE_SIZE

TilesOverlap(a, b) ==
    /\ a.startX < b.startX + b.width /\ b.startX < a.startX + a.width
    /\ a.startY < b.startY + b.height /\ b.startY < a.startY + a.height

TileInside(t, imgH, imgW) ==
    /\ t.width > 0 /\ t.height > 0
    /\ 0 <= t.startX /\ t.startX + t.width <= imgW
    /\ 0 <= t.startY /\ t.startY + t.height <= imgH

PointCovered(ts, px, py) ==
    \E i \in 1..Len(ts) :
        /\ ts[i].startX <= px /\ px < ts[i].startX + ts[i].width
        /\ ts[i].startY <= py /\ py < ts[i].startY + ts[i].height

\* Coverage of a pixel depends only on its side of each tile edge, so a
\* rectangle anchored at the origin is covered when the lower corner of every
\* cell of the arrangement of tile edges inside it is covered.
EdgeXs(ts) == {0} \cup { ts[i].startX : i \in 1..Len(ts) }
                  \cup { ts[i].startX + ts[i].width : i \in 1..Len(ts) }
EdgeYs(ts) == {0} \cup { ts[i].startY : i \in 1..Len(ts) }
                  \cup { ts[i].startY + ts[i].height : i \in 1..Len(ts) }

\* Every pixel is covered except for a right and a bottom margin of fewer than
\* `size` pixels.
CoversButMargin(ts, imgH, imgW, size) ==
    \A px \in EdgeXs(ts), py \in EdgeYs(ts) :
        (px < imgW - (size - 1) /\ py < imgH - (size - 1)) => PointCovered(ts, px, py)

TileCoverage(ts, imgH, imgW, size) ==
    /\ \A i \in 1..Len(ts), j \in 1..Len(ts) : i < j => ~TilesOverlap(ts[i], ts[j])
    /\ \A i \in 1..Len(ts) : TileInside(ts[i], imgH, imgW)
    /\ CoversButMargin(ts, imgH, imgW, size)

\* C6: Tile coverage: the tiles returned by computeTiles are pairwise
\* non-overlapping, lie inside the image, and cover it except possibly a
\* right/bottom margin strictly smaller than the nominal tile size.
C6_TileCoverage ==
    tPc = "done" => TileCoverage(tTiles, tH, tW, NominalTileSize)

\* The same statement for the tiles of the v3 engine alone.
C6_TileCoverageV3 ==
    (tPc = "done" /\ tEngine = "v3") => TileCoverage(tTiles, tH, tW, TILE_SIZE)

\* The v3 engine on a 160 x 160 image: four tiles, the edge tiles kept.
C6_WitnessV3 ==
    /\ tPc = "done" /\ tEngine = "v3"
    /\ tH = 160 /\ tW = 160
    /\ Len(tTiles) = 4

-----------------------------------------------------------------------------
(* C7 - C10: verifyImage *)

LedgerEntries == { ledger[i] : i \in 1..Len(ledger) }

\* The extracted (creatorId, timestamp) matches a record of the registry or of
\* its local mirror.
MetadataMatches ==
    /\ vExtracted # <<>>
    /\ \/ \E row \in Rows : /\ row.creator_id = vExtracted[1].creatorId
                            /\ row.timestamp = vExtracted[1].timestamp
       \/ \E e \in LedgerEntries : /\ e.creatorId = vExtracted[1].creatorId
                                   /\ e.timestamp = vExtracted[1].timestamp

\* The current content hash is the stored hash of a record.
HashMatches ==
    \/ \E row \in Rows : row.image_hash = vCurrentHash
    \/ \E e \in LedgerEntries : e.imageHash = vCurrentHash

NoLookupError == \A i \in 1..Len(vLookups) : vLookups[i].outcome # "error"

Returned(status, confidence) ==
    /\ Len(vResult) = 1
    /\ vResult[1].status = status
    /\ vResult[1].confidence = confidence

\* C7: Verification matrix: both facts -> registered/exact_hash; metadata
\* only -> registered/dwt_metadata; hash only -> registered/exact_hash;
\* neither -> unregistered/none with no registry entry.  (Stated for calls
\* whose lookups all answered.)
C7_VerificationMatrix ==
    (vPc = "done" /\ NoLookupError) =>
        /\ (MetadataMatches /\ HashMatches) => Returned("registered", "exact_hash")
        /\ (MetadataMatches /\ ~HashMatches) => Returned("registered", "dwt_metadata")
        /\ (~MetadataMatches /\ HashMatches) => Returned("registered", "exact_hash")
        /\ (~MetadataMatches /\ ~HashMatches) =>
              /\ Returned("unregistered", "none")
              /\ vResult[1].registryEntry = <<>>

\* C8: The two facts are independent: whenever a registry row stores the
\* current hash, the verdict has confidence exact_hash, also when the payload
\* matches a different record.  (Stated for calls whose lookups all answered.)
C8_HashFactIndependent ==
    (/\ vPc = "done"
     /\ NoLookupError
     /\ \E row \in Rows : row.image_hash = vCurrentHash)
        => Returned("registered", "exact_hash")

InFlight == vPc \in {"hashing", "metadata_query", "hash_query"}

\* C9: verifyImage never fails outright: every call in flight can go on, every
\* finished call has a verdict, and a lookup that errored is followed by the
\* next tier, or at the last tier by the verdict unregistered/none.
C9_NeverFailsOutright ==
    /\ InFlight => ENABLED VerNext
    /\ vPc = "done" =>
          /\ Len(vResult) = 1
          /\ vResult[1].status \in {"registered", "unregistered"}
    /\ \A i \in 1..Len(vLookups) :
          vLookups[i].outcome = "error" =>
              IF vLookups[i].tier = "registry_metadata"
              THEN /\ i < Len(vLookups)
                   /\ vLookups[i + 1].tier = "local_ledger"
                   /\ vLookups[i + 1].outcome = "miss" =>
                         (vPc = "hash_query" \/ vLookups[Len(vLookups)].tier = "registry_hash")
              ELSE /\ vLookups[i].tier = "registry_hash"
                   /\ vPc = "done"
                   /\ Returned("unregistered", "none")

\* A call whose metadata query errored while a row matched, answered from the
\* local ledger.
C9_Witness ==
    /\ vPc = "done"
    /\ Len(vLookups) = 2
    /\ vLookups[1] = [tier |-> "registry_metadata", outcome |-> "error"]
    /\ vLookups[2] = [tier |-> "local_ledger", outcome |-> "hit"]
    /\ \E row \in Rows : /\ row.creator_id = vExtracted[1].creatorId
                         /\ row.timestamp = vExtracted[1].timestamp
    /\ Returned("registered", "dwt_metadata")

\* C10: Lookup order: with a payload the registry is queried by metadata
\* first, the local ledger is read only after that query missed, the registry
\* hash query is made only after both missed, and nothing is consulted after
\* a hit.
C10_LookupOrder ==
    /\ (vExtracted # <<>> /\ vLookups # <<>>) => vLookups[1].tier = "registry_metadata"
    /\ vExtracted = <<>> =>
          \A i \in 1..Len(vLookups) : vLookups[i].tier = "registry_hash"
    /\ \A i \in 1..Len(vLookups) :
          /\ vLookups[i].tier = "registry_metadata" => i = 1
          /\ vLookups[i].tier = "local_ledger" =>
                /\ i = 2
                /\ vLookups[1].tier = "registry_metadata"
                /\ vLookups[1].outcome # "hit"
          /\ (vLookups[i].tier = "registry_hash" /\ vExtracted # <<>>) =>
                /\ i = 3
                /\ vLookups[2].tier = "local_ledger"
                /\ vLookups[2].outcome # "hit"
          /\ vLookups[i].outcome = "hit" => (i = Len(vLookups) /\ vPc = "done")
    /\ vPc = "hash_query" => \A i \in 1..Len(vLookups) : vLookups[i].outcome # "hit"

\* A call with a payload that went through all three tiers although the local
\* ledger holds other entries, and one that stopped at the registry.
C10_Witness ==
    /\ vPc = "done"
    /\ Len(vLookups) = 3
    /\ vLookups[3].tier = "registry_hash"
    /\ vLookups[3].outcome = "hit"
    /\ ledger # <<>>

-----------------------------------------------------------------------------
(* C3 *)

\* C3: In every embedding call the quantization step used by qimEmbed equals
\* the step used by qimExtract: a fixed shared constant, never scaled per
\* tile by a texture-strength multiplier.
C3_StepShared ==
    sPc \in {"embedded", "read"} => sStep = qimExtractStepV2

\* What the shared step is for: the bits read back from the embedded LH band
\* are the bits written.
C3_TileBitsReadBack ==
    sPc = "read" =>
        \A y \in 1..Len(sRead) : \A x \in 1..Len(sRead[y]) :
            sRead[y][x] = sBits[(((y - 1) * Len(sRead[y]) + (x - 1)) % Len(sBits)) + 1]

-----------------------------------------------------------------------------
(* C1 *)

\* C1: for an image of at least 160 x 160 pixels and the payload
\* alice@x.com|2024-01-01T00:00:00.000Z, extractWatermark on the output of
\* embedWatermark returns exactly the creatorId and timestamp that were
\* embedded, whatever the pixels are (channel limits 0 and 255 included).
C1_EmbedExtractRoundTrip ==
    wPc = "resolved" =>
        /\ Len(wResult) = 1
        /\ wResult[1].creatorId = wData.creatorId
        /\ wResult[1].timestamp = wData.timestamp

\* The round trip does succeed on some image.
C1_SomeRoundTrip ==
    /\ wPc = "resolved"
    /\ Len(wResult) = 1
    /\ wResult[1].creatorId = wData.creatorId
    /\ wResult[1].timestamp = wData.timestamp

-----------------------------------------------------------------------------
(* C11 *)

\* The candidate lengths of the two loops of extractWatermark.
EccLengths == {c \in 30..MAX_PAYLOAD_CHARS : c % 2 = 0}
RawLengths == {c \in 40..MAX_PAYLOAD_CHARS : c % 4 = 0}

\* C11: extractWatermark tries the candidate lengths of a scan in strictly
\* ascending order, starts the fallback scan only after every ECC candidate
\* has failed, resolves with the decoding of the first candidate that
\* matches (every smaller length of that scan has failed), and evaluates
\* no candidate after it has resolved.
C11_FirstMatchWins ==
    [][ /\ (wPc = "scanning" /\ wPc' = "scanning" /\ wPhase' = wPhase)
            => wCharLen' > wCharLen
        /\ (wPhase = "ecc" /\ wPhase' = "raw")
            => \A c \in EccLengths : eccCandidate(wReadings, c) = <<>>
        /\ (wPc = "scanning" /\ wPc' = "resolved" /\ wResult' # <<>>)
            => /\ wCharLen' = wCharLen /\ wPhase' = wPhase
               /\ wResult' = IF wPhase = "ecc" THEN eccCandidate(wReadings, wCharLen)
                                              ELSE rawCandidate(wReadings, wCharLen)
               /\ \A c \in (IF wPhase = "ecc" THEN EccLengths ELSE RawLengths) :
                      c < wCharLen =>
                         (IF wPhase = "ecc" THEN eccCandidate(wReadings, c)
                                           ELSE rawCandidate(wReadings, c)) = <<>>
        /\ wPc = "resolved" => UNCHANGED wmVars
      ]_vars

\* Extraction has resolved with the match of one length while a larger
\* candidate length would have matched as well.
C11_Witness ==
    /\ wPc = "resolved"
    /\ wResult # <<>>
    /\ \E c \in EccLengths : c > wCharLen /\ eccCandidate(wReadings, c) # <<>>

-----------------------------------------------------------------------------
(* C12 *)

\* No candidate length of either loop matches the pattern.
NothingMatches(readings) ==
    /\ \A c \in EccLengths : eccCandidate(readings, c) = <<>>
    /\ \A c \in RawLengths : rawCandidate(readings, c) = <<>>

\* C12: when no candidate length in either scan matches, extractWatermark
\* resolves with null; it never rejects once the image has loaded and the
\* scans run, so a rejection comes only from the failed load.
C12_NotFoundIsAValue ==
    [][ /\ wPc' = "rejected" => (wPc = "embedded" /\ wReadings' = <<>>)
        /\ (wPc = "scanning" /\ wPc' # "scanning" /\ NothingMatches(wReadings))
               => (wPc' = "resolved" /\ wResult' = <<>>)
      ]_vars

\* Both loops ran to their last length on a loaded image and null came back.
C12_Witness ==
    /\ wPc = "resolved"
    /\ wResult = <<>>
    /\ wPhase = "raw"
    /\ wCharLen = SetMax(RawLengths)
    /\ wReadings # <<>>

-----------------------------------------------------------------------------
(* C13 *)

\* An empty creatorId, an empty timestamp, or a joined payload longer than
\* MAX_PAYLOAD_CHARS.
MalformedPayload(watermarkData) ==
    \/ watermarkData.creatorId = <<>>
    \/ watermarkData.timestamp = <<>>
    \/ Len(watermarkData.creatorId) + 1 + Len(watermarkData.timestamp) > MAX_PAYLOAD_CHARS

\* C13: embedWatermark called with an empty creatorId, an empty timestamp or
\* an oversized creatorId|timestamp fails and produces no watermarked
\* result.
C13_MalformedPayloadRejected ==
    (wPc # "start" /\ MalformedPayload(wData)) =>
        (wPc = "embedRejected" /\ wMarked = <<>>)

\* embedWatermark has produced a result for an empty creatorId.
C13_EmptyCreatorEmbedded ==
    wPc = "embedded" /\ wData.creatorId = <<>> /\ wMarked # <<>>

-----------------------------------------------------------------------------
(* C14 *)

\* The rows of a table with the greatest created_at.
MostRecentlyCreated(table) ==
    { r \in TableRows(table) : \A q \in TableRows(table) : q.created_at <= r.created_at }

-----------------------------------------------------------------------------
(* C15 *)

RECURSIVE RecomputedChainHash(_, _, _)
\* The chain recomputed from the oldest record forward, without reading any
\* stored hash: the chain_hash that position k of the walk should hold, and
\* GENESIS before the first position.
RecomputedChainHash(table, order, k) ==
    IF k = 0 THEN GENESIS
    ELSE LET rec == table[order[k]]
         IN  sha256Hex(rec.creator_id \o Bar \o rec.timestamp \o Bar
                       \o rec.image_hash \o Bar \o Coalesce(rec.prompt) \o Bar
                       \o RecomputedChainHash(table, order, k - 1))

\* Position k of the walk stores a chain_hash or prev_hash other than the
\* recomputed one.
Disagrees(table, order, k) ==
    \/ table[order[k]].prev_hash # RecomputedChainHash(table, order, k - 1)
    \/ table[order[k]].chain_hash # RecomputedChainHash(table, order, k)

-----------------------------------------------------------------------------
(* C16: the registry and the local ledger are append-only: across every     *)
(* step of saving, verifying and the audit-ledger panel, each row of the    *)
(* registry and each entry of the local ledger that is present before the   *)
(* step is present, unchanged, after it.                                    *)

Range(list) == { list[i] : i \in 1..Len(list) }

RegistryKept == Range(registry) \subseteq Range(registry')

LedgerKept == Range(ledger) \subseteq Range(ledger')

C16_AppendOnly == [][RegistryKept /\ LedgerKept]_vars

\* The part of C16 that holds: no step removes or rewrites a registry row.
C16_RegistryAppendOnly == [][RegistryKept]_vars

-----------------------------------------------------------------------------
(* C17 *)

\* The number of coefficients of the LH band, and of the HL band, of a tile.
BandCoefficients(tile) ==
    ((Len(tile) - (Len(tile) % 2)) \div 2) * ((Len(tile[1]) - (Len(tile[1]) % 2)) \div 2)

\* The HH band has the 8 x 8 cells the sync markers need.
SyncFits(tile) == Len(tile) \div 2 >= 8 /\ Len(tile[1]) \div 2 >= 8

RoundTripExact ==
    /\ rOut[1].bits = rBits
    /\ rOut[1].syncScore = SYNC_CELLS

\* C17: per-tile round trip: for a tile whose LH and HL bands each have at
\* least |encodedBits| coefficients and whose HH band is at least 8 x 8,
\* extractTileBits(embedTile(tile, encodedBits), |encodedBits|) returns
\* exactly encodedBits with syncScore 1.
C17_TileRoundTrip ==
    (/\ rPc = "extracted"
     /\ BandCoefficients(rTile) >= Len(rBits)
     /\ SyncFits(rTile))
    => RoundTripExact

\* A 16 x 16 tile and five bits that are not all equal: the bands have 64
\* cells, so the bits are written more than twelve times and 64 is not a
\* multiple of five.
C17_Witness ==
    /\ rPc = "extracted"
    /\ Len(rTile) = 16 /\ Len(rTile[1]) = 16
    /\ rBits = <<1, 0, 0, 1, 0>>
    /\ rMarked # rTile
    /\ RoundTripExact

\* C17 as stated, without the condition on the HH band: it fails for a tile
\* with a side under 16, whose syncScore is 0.
C17_AsStated ==
    (/\ rPc = "extracted"
     /\ BandCoefficients(rTile) >= Len(rBits))
    => RoundTripExact

-----------------------------------------------------------------------------
(* C18 *)

PayloadLength == Len(rawPayloadOf(wData))

Recovered ==
    /\ Len(wResult) = 1
    /\ wResult[1].creatorId = wData.creatorId
    /\ wResult[1].timestamp = wData.timestamp

\* C18: every payload creatorId|timestamp of the expected shape and of
\* length L, 30 <= L <= 80, odd or even, is recovered: extractWatermark on
\* the output of embedWatermark resolves with the creatorId and timestamp
\* that were embedded.
C18_EveryLengthRecovered ==
    (/\ wPc = "resolved"
     /\ PayloadLength >= 30
     /\ PayloadLength <= MAX_PAYLOAD_CHARS)
    => Recovered

\* The part of C18 that holds: a payload of even length is recovered, by the
\* iteration of the first loop whose charLen is that length.
C18_EvenLengthRecovered ==
    (/\ wPc = "resolved"
     /\ PayloadLength \in EccLengths)
    => (Recovered /\ wPhase = "ecc" /\ wCharLen = PayloadLength)

\* The first loop never evaluates an odd charLen.
C18_OnlyEvenCandidates ==
    (wPc = "scanning" /\ wPhase = "ecc") => wCharLen \in EccLengths

-----------------------------------------------------------------------------
(* C19 *)

\* The tally of C19 for position i: every tile's 0-votes and 1-votes for the
\* position, multiplied by the weight of the tile, added over the tiles.
WeightedTally(i) ==
    LET T == Len(gReadings)
        w(t) == tileWeight(gReadings[t].sync)
        v(t) == tileVotes(gReadings[t], gLen, i)
    IN  << SumTo([t \in 1..T |-> w(t) * v(t)[1]], T),
           SumTo([t \in 1..T |-> w(t) * v(t)[2]], T) >>

\* C19: for each bit position the decided encoded bit is the majority of
\* the tally that adds, over all tiles, the tile's 0-votes and 1-votes for
\* the position multiplied by the tile weight 0.3 + 0.7 x syncScore.
C19_WeightedVoteTally ==
    gPc = "voted" =>
        \A i \in 1..gLen :
            /\ WeightedTally(i)[1] > WeightedTally(i)[2] => gBits[i] = 0
            /\ WeightedTally(i)[2] > WeightedTally(i)[1] => gBits[i] = 1

\* What the code decides: the weights of the tiles whose own decision is 1
\* against the weights of the tiles whose own decision is 0.
C19_MajorityOfTileDecisions ==
    gPc = "voted" =>
        \A i \in 1..gLen :
            LET T == Len(gTileBits)
                side(bit) == SumTo([t \in 1..T |->
                                IF gTileBits[t].bits[i] = bit
                                THEN tileWeight(gTileBits[t].syncScore) ELSE 0], T)
            IN  /\ gVotes[i] = <<side(0), side(1)>>
                /\ gBits[i] = IF side(1) >= side(0) THEN 1 ELSE 0

\* The weight is between 0.3 and 1.0.
C19_WeightRange ==
    gPc = "voted" =>
        \A t \in 1..Len(gTileBits) :
            LET weight == tileWeight(gTileBits[t].syncScore)
            IN  weight >= 3 * SYNC_CELLS /\ weight <= 10 * SYNC_CELLS

-----------------------------------------------------------------------------
(* C20 *)

\* Tile t has a coefficient that maps to position i.
Covers(t, i) == i <= Len(gReadings[t].LH)

\* C20: a tile adds to the global tally of a position only if one of its
\* LH/HL coefficients maps to the position: the tally of every position is
\* the tally of the tiles that cover it.
C20_VotesOnlyWhereCovered ==
    gPc = "voted" =>
        \A i \in 1..gLen :
            LET T == Len(gTileBits)
                covering == [t \in 1..T |->
                                IF Covers(t, i)
                                THEN tileWeight(gTileBits[t].syncScore) ELSE 0]
            IN  gVotes[i] = globalVotes(gTileBits, covering, gLen)[i]

\* What the code does with a position no coefficient of the tile maps to:
\* the tile's votes are <<0, 0>>, its bit is 1 and its weight goes to the
\* 1-tally.
C20_UncoveredCountsAsOne ==
    gPc = "voted" =>
        \A i \in 1..gLen :
            (\A t \in 1..Len(gTileBits) : ~Covers(t, i))
            => /\ gVotes[i][1] = 0
               /\ gVotes[i][2] >= 3 * SYNC_CELLS * Len(gTileBits)
               /\ gBits[i] = 1

-----------------------------------------------------------------------------
(* C21 *)

\* The luminance after the tile loop of embedWatermark, computed from the
\* image apart from the pixel update.
embeddedLuma(image, watermarkData) ==
    embedTiles(yChannelOf(image.pixels, image.height, image.width),
               computeTiles(image.height, image.width),
               Stored(rsEncode(stringToBinary(rawPayloadOf(watermarkData)))))

\* Pixel (y, x), from 1, lies in a tile that computeTiles keeps.
CoveredByTile(tiles, y, x) ==
    \E k \in 1..Len(tiles) :
        /\ y > tiles[k].startY /\ y <= tiles[k].startY + tiles[k].height
        /\ x > tiles[k].startX /\ x <= tiles[k].startX + tiles[k].width

\* C21: embedding frame: embedWatermark adds to R, G and B of each pixel the
\* same luminance delta (new luminance minus original luminance) before
\* clamping, every resulting channel value is in 0..255, the alpha of every
\* pixel is unchanged, and a pixel that no kept tile covers keeps its R, G
\* and B.
C21_EmbeddingFrame ==
    wPc = "embedded" =>
        LET luma == embeddedLuma(wImage, wData)
            tiles == computeTiles(wImage.height, wImage.width)
        IN  \A y \in 1..wImage.height : \A x \in 1..wImage.width :
                LET p == wImage.pixels[y][x]
                    q == wMarked.pixels[y][x]
                    delta == luma[y][x] - rgbToY(p[1], p[2], p[3])
                IN  /\ Len(q) = Len(p)
                    /\ \A c \in 1..3 :
                          /\ q[c] = ToUint8Clamp(Max(0, Min(255 * UNIT, p[c] * UNIT + delta)))
                          /\ q[c] >= 0 /\ q[c] <= 255
                    /\ \A c \in 4..Len(p) : q[c] = p[c]
                    /\ ~CoveredByTile(tiles, y, x) => q = p

\* An image with two uncovered columns whose covered part has a pixel that
\* changes, a pixel that is held at a channel limit, and pixels of
\* different alpha.
C21_Witness ==
    /\ wPc = "embedded"
    /\ wImage.width = TILE_SIZE + 2
    /\ \E y \in 1..wImage.height : \E x \in 1..TILE_SIZE :
          /\ wMarked.pixels[y][x] # wImage.pixels[y][x]
          /\ wMarked.pixels[y][x][4] = wImage.pixels[y][x][4]
    /\ LET luma == embeddedLuma(wImage, wData)
       IN  \E y \in 1..wImage.height : \E x \in 1..TILE_SIZE :
             LET p == wImage.pixels[y][x]
             IN  /\ luma[y][x] # rgbToY(p[1], p[2], p[3])
                 /\ \E c \in 1..3 : wMarked.pixels[y][x][c] = p[c] /\ p[c] \in {0, 255}
    /\ wImage.pixels[1][TILE_SIZE + 1][4] # wImage.pixels[1][TILE_SIZE + 2][4]
    /\ wMarked.pixels[1][TILE_SIZE + 1] = wImage.pixels[1][TILE_SIZE + 1]

-----------------------------------------------------------------------------
(* C22 *)

\* The entry of the latest save is the head of the local ledger: it was
\* written by saveLedgerEntry in this browser and nothing was saved since.
FreshSaved == ledger # <<>> /\ ledger[1].id = nextId - 1

\* The verifyImage call that returned was made on the image of that entry.
VerifiedFresh ==
    /\ vPc = "done"
    /\ FreshSaved
    /\ vCurrentHash = generateHash(vImage)
    /\ vCurrentHash = ledger[1].imageHash

InsertSucceeded == \E row \in Rows : row.id = ledger[1].id

PayloadRecovered ==
    /\ vExtracted # <<>>
    /\ vExtracted[1].creatorId = ledger[1].creatorId
    /\ vExtracted[1].timestamp = ledger[1].timestamp

NoQueryError == \A k \in 1..Len(vLookups) : vLookups[k].outcome # "error"

\* C22: a freshly embedded image verifies with exact-hash confidence: after
\* saveLedgerEntry of the entry of an embedded image, verifyImage on that
\* image returns registered / exact_hash whenever the registry insert
\* succeeded or the extraction recovered the embedded payload (no registry
\* query of the call failing).
C22_FreshImageExactHash ==
    (/\ VerifiedFresh
     /\ NoQueryError
     /\ InsertSucceeded \/ PayloadRecovered)
    => /\ vResult[1].status = "registered"
       /\ vResult[1].confidence = "exact_hash"

\* The part of C22 that holds: the fresh image is never reported
\* unregistered, and it is reported with exact_hash when no record of the
\* registry or the local ledger has the creatorId and timestamp that were
\* extracted together with another image hash.
C22_FreshImageRegistered ==
    (/\ VerifiedFresh
     /\ NoQueryError
     /\ InsertSucceeded \/ PayloadRecovered)
    => /\ vResult[1].status = "registered"
       /\ (\A row \in Rows \cup { toRegistryRow(ledger[k]) : k \in 1..Len(ledger) } :
              (vExtracted # <<>>
               /\ row.creator_id = vExtracted[1].creatorId
               /\ row.timestamp = vExtracted[1].timestamp)
              => row.image_hash = vCurrentHash)
          => vResult[1].confidence = "exact_hash"

\* Two records with one creatorId and timestamp for two images, both in the
\* registry; the second image is verified with its payload recovered and
\* the metadata query hands back the record of the first.
C22_SameKeyOtherImage ==
    /\ VerifiedFresh
    /\ NoQueryError
    /\ InsertSucceeded
    /\ PayloadRecovered
    /\ vResult[1].confidence = "dwt_metadata"

-----------------------------------------------------------------------------
(* C23 *)

\* C23: an untampered chain always verifies: after any sequence of inserts
\* and no rewriting of a row, whatever created_at the inserts supplied,
\* verify_chain_integrity reports is_valid = true for every record.
C23_UntamperedChainVerifies ==
    (cOrder # <<>> /\ cTampered = {}) =>
        \A k \in 1..Len(cSweep) : cSweep[k].is_valid

\* The part of C23 that holds: when every insert arrived with a created_at
\* later than all the rows before it, the untampered chain verifies.
C23_InOrderChainVerifies ==
    (/\ cOrder # <<>>
     /\ cTampered = {}
     /\ \A k \in 1..(Len(cTable) - 1) : cTable[k].created_at < cTable[k + 1].created_at)
    => \A k \in 1..Len(cSweep) : cSweep[k].is_valid

-----------------------------------------------------------------------------
(* C24 *)

\* C24: tamper evidence: a change to the stored creator_id, timestamp,
\* image_hash or prompt of a record makes verify_chain_integrity report
\* that record invalid.
C24_TamperEvident ==
    (cOrder # <<>>) =>
        \A k \in 1..Len(cSweep) :
            cSweep[k].id \in cTampered => ~cSweep[k].is_valid

\* The part of C24 that holds: a rewritten record whose payload string is
\* no longer the one its chain_hash was computed from is reported invalid.
C24_PayloadChangeEvident ==
    (cOrder # <<>>) =>
        \A k \in 1..Len(cSweep) :
            LET rec == cTable[cOrder[k]]
            IN  rec.chain_hash # sha256Hex(chainPayload(rec, rec.prev_hash))
                => ~cSweep[k].is_valid

\* Field tuples with and without the separator inside a field, and with a
\* NULL or an empty prompt.
FieldTuples ==
    [creator_id : {<<"a">>, <<"a", "|", "b">>},
     timestamp : {<<"b">>, <<"c">>, <<"b", "|", "c">>},
     image_hash : {<<"c">>, <<"h">>},
     prompt : {NullText, <<>>}]

\* The second half of C24: two different field tuples never give the same
\* payload string.
C24_PayloadInjective ==
    \A a, b \in FieldTuples :
        a # b => chainPayload(a, GENESIS) # chainPayload(b, GENESIS)

-----------------------------------------------------------------------------
(* C25 *)

\* C25: saveLedgerEntry writes the local ledger first and keeps it when the
\* registry fails: the entry is prepended to the local ledger, the earlier
\* entries kept in order, before the insert is attempted; when the insert
\* answers, with an error or not, the call returns without throwing, the
\* local ledger is as it was and one 'storage' event is dispatched; at
\* every moment the local ledger holds the entries of all calls started,
\* newest first, also when the calls overlap.
C25_LocalFirstAndKept ==
    [][ /\ Len(lPending') = Len(lPending) + 1 =>
              /\ ledger' = << lPending'[Len(lPending')] >> \o ledger
              /\ registry' = registry
              /\ lEvents' = lEvents
        /\ Len(lCompleted') = Len(lCompleted) + 1 =>
              /\ ledger' = ledger
              /\ ~lCompleted'[Len(lCompleted')].threw
              /\ lEvents' = lEvents + 1
              /\ lCompleted'[Len(lCompleted')].error => registry' = registry
        /\ Len(ledger') = nextId' - 1
        /\ \A k \in 1..Len(ledger') : ledger'[k].id = nextId' - k
      ]_vars

\* Two calls were in flight at once; the one started first failed at the
\* registry, the other stored its row, and both entries are in the local
\* ledger.
C25_Witness ==
    /\ lPending = <<>>
    /\ Len(lCompleted) = 2
    /\ lCompleted[1].id = 2 /\ ~lCompleted[1].error
    /\ lCompleted[2].id = 1 /\ lCompleted[2].error
    /\ Len(registry) = 1
    /\ Len(ledger) = 2
    /\ lEvents = 2

-----------------------------------------------------------------------------
(* C26 *)

\* A result is rendered: the card is on screen.
ResultShown == uResult # <<>> /\ uStep = "complete"

\* C26: whenever currentStep is 'complete' and a result is shown, the result
\* was computed from the current sourceImage, whatever upload, paste or URL
\* load completed while runVerification was in progress.
C26_VerdictOfDisplayedImage ==
    (ResultShown /\ uSource # NoImage) =>
        uResult.currentHash = generateHash(uSource)

\* A verdict is on screen next to another image than the one it is about.
C26_StaleVerdictShown ==
    /\ ResultShown
    /\ uSource # NoImage
    /\ uResult.currentHash # generateHash(uSource)

-----------------------------------------------------------------------------
(* C27 *)

\* A step in which a runVerification call delivers its verdict.
VerdictDelivered ==
    /\ Len(uRuns') < Len(uRuns)
    /\ uStep' = "complete"
    /\ uResult' # <<>>

\* C27: a verdict with status 'registered' is delivered with the success
\* notification and is rendered as the positive status card; the error
\* notification and the destructive card are used only for 'unregistered'.
C27_RegisteredShownPositive ==
    [][VerdictDelivered =>
        /\ uResult'.status = "registered" =>
              /\ uToast'.kind = "success"
              /\ StatusCard(uPanel', uResult'.status).tone = "positive"
        /\ (uToast'.kind = "error"
            \/ StatusCard(uPanel', uResult'.status).tone = "destructive") =>
              uResult'.status = "unregistered"]_vars

\* A registered verdict is on screen as a card that is not the positive one.
C27_RegisteredShownNegative ==
    /\ ResultShown
    /\ uResult.status = "registered"
    /\ StatusCard(uPanel, uResult.status).tone # "positive"
    /\ uToast.kind = "error"

-----------------------------------------------------------------------------
(* C28 *)

\* The value of 8 bits read most significant first.
ByteValue(b) ==
    128 * b[1] + 64 * b[2] + 32 * b[3] + 16 * b[4] + 8 * b[5] + 4 * b[6] + 2 * b[7] + b[8]

\* C28: for every string s of printable ASCII characters, stringToBinary
\* emits 8 bits per character, most significant bit first; rsEncode repeats
\* each bit 3 times in a row, so that the encoded length is |s| x 8 x 3; and
\* binaryToString(rsDecode(rsEncode(stringToBinary(s)), 8 x |s|)) = s.
C28_CodecRoundTrip ==
    /\ pPc \in {"binary", "encoded", "decoded", "read"} =>
          /\ Len(pBits) = 8 * Len(pStr)
          /\ \A i \in 1..Len(pStr) :
                ByteValue(SubSeq(pBits, 8 * (i - 1) + 1, 8 * i)) = pStr[i]
    /\ pPc \in {"encoded", "decoded", "read"} =>
          /\ Len(pEnc) = Len(pStr) * 8 * 3
          /\ \A k \in 1..Len(pBits) : \A r \in 1..3 :
                pEnc[3 * (k - 1) + r] = pBits[k]
    /\ pPc = "read" => pOut = pStr

\* A string of the longest length with the first and the last printable
\* character has gone through the four functions.
C28_Witness ==
    /\ pPc = "read"
    /\ Len(pStr) = MaxStrLen
    /\ pStr[1] = 32
    /\ pStr[MaxStrLen] = 126
    /\ Len(pEnc) = 8 * 3 * MaxStrLen
    /\ pOut = pStr

-----------------------------------------------------------------------------
(* C30 *)

\* The complete groups of 8 bits of a bit array, as character codes.
CompleteGroups(binary) ==
    [g \in 1..(Len(binary) \div 8) |-> ByteValue(SubSeq(binary, 8 * (g - 1) + 1, 8 * g))]

\* C30: binaryToString outputs exactly one character for every complete
\* group of 8 bits, the character itself when its code is printable ASCII and
\* a space otherwise, and trailing bits that do not fill a group of 8
\* contribute nothing to the output.
C30_OneCharacterPerGroup ==
    pPc = "read" =>
        LET codes == CompleteGroups(pDec)
        IN  /\ Len(pOut) = Len(codes)
            /\ \A g \in 1..Len(codes) :
                  pOut[g] = IF codes[g] \in PrintableAscii THEN codes[g] ELSE 32

\* What does hold: a group of 8 zero bits gives no character, every other
\* complete group gives one (codes 32..127 themselves, a space otherwise), and
\* a trailing partial group is read as a shorter number in the same way.
C30_ZeroGroupsDropped ==
    pPc = "read" =>
        LET full == Len(pDec) \div 8
            rest == Len(pDec) % 8
            tail == IF rest = 0 THEN <<>>
                    ELSE <<SumTo([j \in 1..rest |-> pDec[8 * full + j] * (2 ^ (rest - j))], rest)>>
            kept == SelectSeq(CompleteGroups(pDec) \o tail, LAMBDA c : c # 0)
        IN  /\ Len(pOut) = Len(kept)
            /\ \A k \in 1..Len(kept) :
                  pOut[k] = IF kept[k] > 31 /\ kept[k] < 128 THEN kept[k] ELSE 32

\* A group of 8 zero bits has been decoded to the empty string.
C30_ZeroGroupGivesNothing ==
    /\ pPc = "read"
    /\ pDec = <<0, 0, 0, 0, 0, 0, 0, 0>>
    /\ pOut = <<>>

\* Two trailing bits after a complete group have produced a second character.
C30_TrailingBitsGiveCharacter ==
    /\ pPc = "read"
    /\ Len(pDec) = 10
    /\ Len(pOut) = 2

-----------------------------------------------------------------------------
(* C29 *)

\* The cells of the 4 x 4 block with top-left cell (cy, cx) that read the bit
\* of the pattern at their place.
CornerMatches(band, cy, cx) ==
    Cardinality({d \in (0..3) \X (0..3) :
        qimExtract(band[cy + d[1]][cx + d[2]]) = SYNC_MARKER[4 * d[1] + d[2] + 1]})

\* Matches summed over the four corners: 64 times the fraction of the 16
\* positions that match, averaged over the corners.
FourCornerMatches(band) ==
    LET h == Len(band)
        w == Len(band[1])
    IN  CornerMatches(band, 1, 1) + CornerMatches(band, 1, w - 3)
        + CornerMatches(band, h - 3, 1) + CornerMatches(band, h - 3, w - 3)

TakesMarkers(band) == Len(band) >= 8 /\ Len(band[1]) >= 8

\* C29: detectSyncMarkers returns a value in [0,1] for every band; for a band
\* of at least 8 x 8 coefficients the value is the fraction of the 16 pattern
\* positions that match, averaged over the four 4 x 4 corners, and it is
\* exactly 1 once embedSyncMarkers was applied; for a band with fewer than 8
\* rows or columns the value is 0 and embedSyncMarkers changes nothing.
\* The scores are kept as matches out of SYNC_CELLS.
C29_SyncScore ==
    /\ mPc \in {"scored", "marked", "rescored"} =>
          /\ mScore \in 0..SYNC_CELLS
          /\ mScore = IF TakesMarkers(mBand) THEN FourCornerMatches(mBand) ELSE 0
    /\ mPc \in {"marked", "rescored"} =>
          (~TakesMarkers(mBand) => mMarked = mBand)
    /\ mPc = "rescored" =>
          mScoreMarked = IF TakesMarkers(mBand) THEN SYNC_CELLS ELSE 0

\* A band of 8 x MaxBandSide cells that matched the pattern in some cells
\* only scores 1 after the markers were written.
C29_Witness ==
    /\ mPc = "rescored"
    /\ Len(mBand) = 8
    /\ Len(mBand[1]) = MaxBandSide
    /\ mScore > 0
    /\ mScore < SYNC_CELLS \div 2
    /\ mScoreMarked = SYNC_CELLS

\* C29 as stated: the score of every band is the fraction of matching
\* positions averaged over its four 4 x 4 corners.
C29_AsStated ==
    mPc \in {"scored", "marked", "rescored"} =>
        /\ mScore \in 0..SYNC_CELLS
        /\ mScore = FourCornerMatches(mBand)

====
